---- MODULE Spec2Model ----
(***************************************************************************)
(* course_checker: document normalization (services/fileProcessor.js) and  *)
(* structured response recovery (AIService, StatementService).             *)
(*                                                                         *)
(* File names and model texts are sequences of one-character strings.      *)
(* Text extracted from a PDF is a sequence of UTF-16 code units, because   *)
(* createTextImage sanitizes it by code-unit ranges.                       *)
(***************************************************************************)
EXTENDS Integers, Sequences, FiniteSets, TLC

VARIABLES
    file,           \* the uploaded file handed to processFile: [originalname, mimetype]
    pdf2pic,        \* TRUE iff require('pdf2pic') succeeded at module load
    pc,             \* position of the processFile call
    images,         \* processPDFWithPdf2Pic: images pushed so far
    pageNum,        \* processPDFWithPdf2Pic: loop counter
    hasMorePages,   \* processPDFWithPdf2Pic: loop flag
    attempts,       \* history: the convert(pageNum) calls made, in order
    tier2,          \* history: processPDFWithTextExtraction notInvoked / returned / threw
    pdfText,        \* history: the text tier 2 split into pages
    result,         \* what processFile resolved or rejected with
    aiPc,           \* position of the AIService call: idle / awaiting / done
    aiCall,         \* the AIService method called
    aiReply,        \* history: what axios.post settled with
    aiStripped,     \* history: cleanedResponse after trim and fence stripping
    aiParsedText,   \* history: the text handed to JSON.parse
    aiTrace,        \* history: the recovery stages passed, in order
    aiResult,       \* what the AIService call resolved or rejected with
    uploads,        \* the files present in uploads/ (paths)
    fileCount,      \* the files multer has stored so far (names are unique)
    upRoute,        \* the upload route of the request being served
    upPc,           \* position of the route handler
    reqFiles,       \* req.files of the request: the stored paths, in order
    fileIndex,      \* /api/analyze: position of the for..of loop in req.files
    results,        \* /api/analyze: the results pushed so far
    resStatus,      \* the HTTP status the handler answered with, 0 before
    statementId,    \* /api/statement: statementData.id
    documents,      \* StatementService.documents: the records, in insertion order
    questionCache,  \* StatementService.questionCache: [id, questions] per cached id
    idCounter,      \* StatementService.idCounter
    courseContents, \* QuizService.courseContents: paths of the stored courses
    served,         \* history: the upload requests received so far
    unlinkFailed,   \* history: TRUE iff fs.unlinkSync threw for a file
    reqStatementId, \* /api/analyze: req.body.statement_id
    statementQuestions, \* /api/analyze: how many, -1 for null
    statementUsed,  \* /api/analyze: statement_used of the response
    activeStatement, \* StatementService.activeStatement
    now,            \* Date.now() of the last processStatement
    stCall,         \* history: the last selectStatement, removeStatement or cleanup
    quizzes,        \* QuizService.quizzes: the quiz stored under the id i, at i
    quizResults,    \* QuizService.results: the results of the quiz i, at i
    quizResponse    \* what the last quiz route answered

docVars == <<file, pdf2pic, pc, images, pageNum, hasMorePages, attempts,
             tier2, pdfText, result>>

recVars == <<aiPc, aiCall, aiReply, aiStripped, aiParsedText, aiTrace, aiResult>>

\* The request being handled; the files; StatementService.
requestVars == <<upRoute, upPc, reqFiles, fileIndex, results, resStatus,
                 statementId, served, reqStatementId, statementQuestions,
                 statementUsed>>

diskVars == <<uploads, fileCount, unlinkFailed>>

stateVars == <<documents, questionCache, idCounter, activeStatement, now, stCall>>

upVars == <<requestVars, diskVars, stateVars, courseContents>>

quizVars == <<quizzes, quizResults, quizResponse>>

vars == <<docVars, recVars, upVars, quizVars>>

\* What a processFile step leaves alone, and what an AIService step does.
outsideDoc == <<recVars, upVars, quizVars>>

outsideRec == <<docVars, upVars, quizVars>>

\* What a step of a route handler leaves alone.
outsideUp == <<docVars, recVars, quizVars>>

\* What a step of a quiz route leaves alone.
outsideQuiz == <<docVars, recVars, upVars>>

(***************************************************************************)
(* Generic helpers                                                         *)
(***************************************************************************)
Min(a, b) == IF a <= b THEN a ELSE b

Max(a, b) == IF a >= b THEN a ELSE b

\* String.prototype.substring(from, to) with 0-based, end-exclusive indices,
\* 0 <= from: the characters from+1 .. min(to, length) of the sequence.
Substring(s, from, to) == SubSeq(s, from + 1, Min(to, Len(s)))

StartsWith(s, p) == Len(s) >= Len(p) /\ SubSeq(s, 1, Len(p)) = p

EndsWith(s, p) == Len(s) >= Len(p) /\ SubSeq(s, Len(s) - Len(p) + 1, Len(s)) = p

\* String.prototype.replace(/c/g, rep) for a single character c.
RECURSIVE ReplaceAll(_, _, _)
ReplaceAll(s, c, rep) ==
    IF Len(s) = 0 THEN <<>>
    ELSE IF Len(s) = 1 THEN (IF s[1] = c THEN rep ELSE s)
    ELSE LET h == Len(s) \div 2
         IN  ReplaceAll(SubSeq(s, 1, h), c, rep)
                \o ReplaceAll(SubSeq(s, h + 1, Len(s)), c, rep)

\* The greatest index of character c in s, 0 when there is none.
LastIndexOf(s, c) ==
    LET hits == {i \in 1..Len(s) : s[i] = c}
    IN  IF hits = {} THEN 0 ELSE CHOOSE i \in hits : \A j \in hits : j <= i

(***************************************************************************)
(* File names: path.extname and toLowerCase                                *)
(***************************************************************************)
\* String.prototype.toLowerCase on one character: the letters A-Z.
LowerChar(c) ==
    LET upper == <<"A", "B", "C", "D", "E", "F", "G", "H", "I", "J", "K", "L", "M",
                   "N", "O", "P", "Q", "R", "S", "T", "U", "V", "W", "X", "Y", "Z">>
        lower == <<"a", "b", "c", "d", "e", "f", "g", "h", "i", "j", "k", "l", "m",
                   "n", "o", "p", "q", "r", "s", "t", "u", "v", "w", "x", "y", "z">>
    IN  IF \E i \in 1..26 : upper[i] = c
        THEN lower[CHOOSE i \in 1..26 : upper[i] = c]
        ELSE c

toLowerCase(s) == [i \in 1..Len(s) |-> LowerChar(s[i])]

\* path.extname: from the last "." of the last path segment to the end; empty
\* when there is no "." or the only "." is the segment's first character.
extname(name) ==
    LET slash == LastIndexOf(name, "/")
        base  == SubSeq(name, slash + 1, Len(name))
        dot   == LastIndexOf(base, ".")
    IN  IF dot <= 1 \/ base = <<".", ".">> THEN <<>>
        ELSE SubSeq(base, dot, Len(base))

ImageExtensions == {<<".", "j", "p", "g">>, <<".", "j", "p", "e", "g">>,
                    <<".", "p", "n", "g">>}

PdfExtension == <<".", "p", "d", "f">>

\* The original names of the uploads considered.
FileNames ==
    { <<"a", ".", "p", "d", "f">>,
      <<"A", ".", "P", "D", "F">>,
      <<"u", "/", "b", ".", "p", "d", "f">>,
      <<"b", ".", "j", "p", "g">>,
      <<"c", ".", "j", "p", "e", "g">>,
      <<"d", ".", "P", "n", "g">>,
      <<"e", ".", "g", "i", "f">>,
      <<"f", ".", "p", "d", "f", ".", "t", "x", "t">>,
      <<"p", "d", "f">>,
      <<".", "p", "d", "f">>,
      <<"g", ".">> }

\* const allowedTypes = [...]
allowedTypes == {"application/pdf", "image/jpeg", "image/jpg", "image/png"}

\* The MIME types a client declares for the uploads considered.
MimeTypes == {"application/pdf", "image/png", "image/gif"}

\* fileFilter: multer keeps the file iff its declared MIME type is allowed.
fileFilter(f) == f.mimetype \in allowedTypes

\* The original name and the MIME type are both chosen by the client.
UploadedFiles == {[originalname |-> n, mimetype |-> m] : n \in FileNames, m \in MimeTypes}

(***************************************************************************)
(* Pages                                                                   *)
(***************************************************************************)
NoText == <<>>

\* One element of the array processFile returns.  kind says which path made
\* it; pageNum/totalPages/src/body are the createTextImage arguments and the
\* sanitized text it embeds (tier 2 only).
RasterPage(n) ==
    [kind |-> "raster", pageNum |-> n, totalPages |-> 0, src |-> NoText, body |-> NoText]

ImagePage ==
    [kind |-> "image", pageNum |-> 1, totalPages |-> 1, src |-> NoText, body |-> NoText]

TextPage(text, body, n, total) ==
    [kind |-> "text", pageNum |-> n, totalPages |-> total, src |-> text, body |-> body]

Pending == [status |-> "pending", pages |-> <<>>, error |-> "", detail |-> <<>>]

Resolved(pages) == [status |-> "ok", pages |-> pages, error |-> "", detail |-> <<>>]

Rejected(msg, detail) == [status |-> "error", pages |-> <<>>, error |-> msg, detail |-> detail]

(***************************************************************************)
(* createTextImage: sanitizing                                             *)
(***************************************************************************)
MaxBodyLen == 3000

\* /[\x00-\x08\x0B\x0C\x0E-\x1F\x7F]/
IsInvalidControl(c) ==
    \/ c \in 0..8
    \/ c \in {11, 12}
    \/ c \in 14..31
    \/ c = 127

\* /[\u0000-\u0008\u000B-\u000C\u000E-\u001F]/
IsInvalidControl2(c) ==
    \/ c \in 0..8
    \/ c \in 11..12
    \/ c \in 14..31

ReplacementChar == 65533

Amp == <<38, 97, 109, 112, 59>>

Lt == <<38, 108, 116, 59>>

Gt == <<38, 103, 116, 59>>

Quot == <<38, 113, 117, 111, 116, 59>>

Apos == <<38, 97, 112, 111, 115, 59>>

EscapeXml(s) ==
    ReplaceAll(ReplaceAll(ReplaceAll(ReplaceAll(ReplaceAll(s,
        38, Amp), 60, Lt), 62, Gt), 34, Quot), 39, Apos)

SanitizeText(text) ==
    LET a == SelectSeq(text, LAMBDA c : ~IsInvalidControl(c))
        b == SelectSeq(a, LAMBDA c : c # ReplacementChar)
        d == SelectSeq(b, LAMBDA c : ~IsInvalidControl2(c))
    IN  Substring(EscapeXml(d), 0, MaxBodyLen)

\* createTextImage(text, pageNum, totalPages) when sharp renders the SVG.
createTextImage(text, n, total) == TextPage(text, SanitizeText(text), n, total)

(***************************************************************************)
(* processPDFWithTextExtraction: paging                                    *)
(***************************************************************************)
textPerPage == 2000

\* 'Empty PDF or could not extract text'
EmptyPdfText ==
    <<69, 109, 112, 116, 121, 32, 80, 68, 70, 32, 111, 114, 32, 99, 111, 117,
      108, 100, 32, 110, 111, 116, 32, 101, 120, 116, 114, 97, 99, 116, 32,
      116, 101, 120, 116>>

\* Variant of the paging loop with the bound test i <= text.length.
RECURSIVE SplitPagesFromInclusive(_, _)
SplitPagesFromInclusive(text, i) ==
    IF i <= Len(text)
    THEN <<Substring(text, i, i + textPerPage)>> \o SplitPagesFromInclusive(text, i + textPerPage)
    ELSE <<>>

\* for (let i = 0; i < text.length; i += textPerPage) pages.push(text.substring(i, i + textPerPage))
RECURSIVE SplitPagesFrom(_, _)
SplitPagesFrom(text, i) ==
    IF i < Len(text)
    THEN <<Substring(text, i, i + textPerPage)>> \o SplitPagesFrom(text, i + textPerPage)
    ELSE <<>>

TextPages(text) ==
    LET pages == SplitPagesFrom(text, 0)
    IN  IF Len(pages) = 0 THEN <<EmptyPdfText>> ELSE pages

TextImages(text) ==
    LET pages == TextPages(text)
    IN  [i \in 1..Len(pages) |-> createTextImage(pages[i], i, Len(pages))]

(***************************************************************************)
(* processPDFWithPdf2Pic: loop                                             *)
(***************************************************************************)
PageLimit == 20

LoopRuns(more, n) == more /\ n <= PageLimit

\* Variant of the zero-page test that also rejects a single converted page.
NoPagesConvertedAtMostOne(imgs) == Len(imgs) <= 1

NoPagesConverted(imgs) == Len(imgs) = 0

(***************************************************************************)
(* Texts pdf-parse may extract                                             *)
(***************************************************************************)
MaxTextChunks == 2

PlainPattern == <<97>>

\* & < NUL U+FFFD ' " a LF > TAB DEL VT
MarkupPattern == <<38, 60, 0, 65533, 39, 34, 97, 10, 62, 9, 127, 11>>

TextOfLen(n, pat) == [i \in 1..n |-> pat[((i - 1) % Len(pat)) + 1]]

TextLens == {q * textPerPage + r : q \in 0..MaxTextChunks, r \in {0, 1, 500, 1999}}

\* One character more than PageLimit pages of textPerPage characters hold.
OverLimitLen == PageLimit * textPerPage + 1

\* Texts of white space only: a blank, and LF blank TAB CR.
WhitespaceTexts == {<<32>>, <<10, 32, 9, 13>>}

PdfTexts ==
    {TextOfLen(n, PlainPattern) : n \in TextLens \cup {OverLimitLen}}
        \cup {TextOfLen(n, MarkupPattern) : n \in TextLens}
        \cup WhitespaceTexts

\* What pdfParse(dataBuffer) resolves with: pdfData.text may be missing.
PdfData == {[hasText |-> FALSE, text |-> NoText]}
              \cup {[hasText |-> TRUE, text |-> t] : t \in PdfTexts}

\* const text = pdfData.text || ''
TextOf(pdfData) == IF pdfData.hasText THEN pdfData.text ELSE NoText

(***************************************************************************)
(* processFile                                                             *)
(***************************************************************************)
DocInit ==
    /\ file \in {f \in UploadedFiles : fileFilter(f)}
    /\ pdf2pic \in BOOLEAN
    /\ pc = "processFile"
    /\ images = <<>>
    /\ pageNum = 1
    /\ hasMorePages = TRUE
    /\ attempts = <<>>
    /\ tier2 = "notInvoked"
    /\ pdfText = NoText
    /\ result = Pending

\* Variant of the extension without toLowerCase().
fileExtensionCaseSensitive == extname(file.originalname)

fileExtension == toLowerCase(extname(file.originalname))

\* processFile dispatches on the extension; processPDF picks the first tier.
ProcessFile ==
    /\ pc = "processFile"
    /\ IF fileExtension = PdfExtension
       THEN /\ pc' = IF pdf2pic THEN "processPDFWithPdf2Pic" ELSE "processPDFWithTextExtraction"
            /\ UNCHANGED result
       ELSE IF fileExtension \in ImageExtensions
       THEN /\ pc' = "processImage"
            /\ UNCHANGED result
       ELSE /\ pc' = "done"
            /\ result' = Rejected("Unsupported file type", fileExtension)
    /\ UNCHANGED <<file, pdf2pic, images, pageNum, hasMorePages, attempts,
                   tier2, pdfText>>
    /\ UNCHANGED outsideDoc

\* processImage: sharp decodes and re-encodes the file, or throws.
ProcessImage ==
    /\ pc = "processImage"
    /\ \E decodes \in BOOLEAN :
          result' = IF decodes THEN Resolved(<<ImagePage>>)
                    ELSE Rejected("Failed to process image file", <<>>)
    /\ pc' = "done"
    /\ UNCHANGED <<file, pdf2pic, images, pageNum, hasMorePages, attempts,
                   tier2, pdfText>>
    /\ UNCHANGED outsideDoc

\* processPDFWithPdf2Pic up to the loop: fromPath(pdfPath, options) may throw,
\* which processPDF catches before it falls back to text extraction.
Pdf2PicStart ==
    /\ pc = "processPDFWithPdf2Pic"
    /\ \E throws \in BOOLEAN :
          pc' = IF throws THEN "processPDFWithTextExtraction" ELSE "loop"
    /\ images' = <<>>
    /\ pageNum' = 1
    /\ hasMorePages' = TRUE
    /\ UNCHANGED <<file, pdf2pic, attempts, tier2, pdfText, result>>
    /\ UNCHANGED outsideDoc

ConvertOutcomes == {"buffer", "noBuffer", "convertThrows", "sharpThrows"}

\* Variant of the loop body that skips a failed page and goes on.
Pdf2PicConvertSkipsFailedPage ==
    /\ pc = "loop"
    /\ LoopRuns(hasMorePages, pageNum)
    /\ \E outcome \in ConvertOutcomes :
          /\ attempts' = Append(attempts, [page |-> pageNum, outcome |-> outcome])
          /\ images' = IF outcome = "buffer" THEN Append(images, RasterPage(pageNum))
                       ELSE images
          /\ pageNum' = pageNum + 1
          /\ UNCHANGED hasMorePages
    /\ UNCHANGED <<file, pdf2pic, pc, tier2, pdfText, result>>
    /\ UNCHANGED outsideDoc

\* One iteration of the while loop: convert(pageNum), then sharp on its buffer.
Pdf2PicConvert ==
    /\ pc = "loop"
    /\ LoopRuns(hasMorePages, pageNum)
    /\ \E outcome \in ConvertOutcomes :
          /\ attempts' = Append(attempts, [page |-> pageNum, outcome |-> outcome])
          /\ IF outcome = "buffer"
             THEN /\ images' = Append(images, RasterPage(pageNum))
                  /\ pageNum' = pageNum + 1
                  /\ UNCHANGED hasMorePages
             ELSE /\ hasMorePages' = FALSE
                  /\ UNCHANGED <<images, pageNum>>
    /\ UNCHANGED <<file, pdf2pic, pc, tier2, pdfText, result>>
    /\ UNCHANGED outsideDoc

\* Variant of processPDF without the try/catch around tier 1.
Pdf2PicFinishRethrows ==
    /\ pc = "loop"
    /\ ~LoopRuns(hasMorePages, pageNum)
    /\ pc' = "done"
    /\ result' = IF NoPagesConverted(images)
                 THEN Rejected("No pages could be converted from PDF using pdf2pic", <<>>)
                 ELSE Resolved(images)
    /\ UNCHANGED <<file, pdf2pic, images, pageNum, hasMorePages, attempts,
                   tier2, pdfText>>
    /\ UNCHANGED outsideDoc

\* After the loop: no image at all throws (caught by processPDF, which goes on
\* to text extraction); otherwise the images are returned.
Pdf2PicFinish ==
    /\ pc = "loop"
    /\ ~LoopRuns(hasMorePages, pageNum)
    /\ IF NoPagesConverted(images)
       THEN /\ pc' = "processPDFWithTextExtraction"
            /\ UNCHANGED result
       ELSE /\ pc' = "done"
            /\ result' = Resolved(images)
    /\ UNCHANGED <<file, pdf2pic, images, pageNum, hasMorePages, attempts,
                   tier2, pdfText>>
    /\ UNCHANGED outsideDoc

\* processPDFWithTextExtraction: any throw inside (reading the file, pdfParse,
\* createTextImage) is rethrown as 'Failed to process PDF file: ...'.
TextExtraction ==
    /\ pc = "processPDFWithTextExtraction"
    /\ pc' = "done"
    /\ \/ /\ tier2' = "threw"
          /\ result' = Rejected("Failed to process PDF file", <<>>)
          /\ UNCHANGED pdfText
       \/ \E pdfData \in PdfData :
             /\ pdfText' = TextOf(pdfData)
             /\ \E renders \in BOOLEAN :
                   /\ tier2' = IF renders THEN "returned" ELSE "threw"
                   /\ result' = IF renders THEN Resolved(TextImages(TextOf(pdfData)))
                                ELSE Rejected("Failed to process PDF file", <<>>)
    /\ UNCHANGED <<file, pdf2pic, images, pageNum, hasMorePages, attempts>>
    /\ UNCHANGED outsideDoc

DocNext ==
    \/ ProcessFile
    \/ ProcessImage
    \/ Pdf2PicStart
    \/ Pdf2PicConvert
    \/ Pdf2PicFinish
    \/ TextExtraction


(***************************************************************************)
(* Model text: characters                                                  *)
(***************************************************************************)
\* U+0060, the character code fences are made of.
Tick == "BACKTICK"

Fence == <<Tick, Tick, Tick>>

\* "json"
JsonTag == <<"j", "s", "o", "n">>

\* The white space trim() and the regular expression class \s remove.
WhiteSpace == {" ", "\t", "\n", "\r", "\f"}

\* String.prototype.includes
Includes(s, sub) ==
    \E i \in 1..(Len(s) - Len(sub) + 1) : SubSeq(s, i, i + Len(sub) - 1) = sub

\* String.prototype.trimStart / trimEnd / trim
TrimStart(s) ==
    LET keep == {i \in 1..Len(s) : s[i] \notin WhiteSpace}
    IN  IF keep = {} THEN <<>>
        ELSE SubSeq(s, CHOOSE i \in keep : \A j \in keep : i <= j, Len(s))

TrimEnd(s) ==
    LET keep == {i \in 1..Len(s) : s[i] \notin WhiteSpace}
    IN  IF keep = {} THEN <<>>
        ELSE SubSeq(s, 1, CHOOSE i \in keep : \A j \in keep : j <= i)

Trim(s) == TrimEnd(TrimStart(s))

(***************************************************************************)
(* The response cleaner                                                    *)
(***************************************************************************)
\* Variant of the fence stripping that leaves the closing fence in place.
StripFenceLeadingOnly(cleaned) ==
    IF StartsWith(cleaned, Fence \o JsonTag)
    THEN TrimStart(SubSeq(cleaned, Len(Fence \o JsonTag) + 1, Len(cleaned)))
    ELSE IF StartsWith(cleaned, Fence)
    THEN TrimStart(SubSeq(cleaned, Len(Fence) + 1, Len(cleaned)))
    ELSE cleaned

\* replace(/\s*FENCE$/, ''): a fence at the very end goes, with the white
\* space before it.
RemoveClosingFence(s) ==
    IF EndsWith(s, Fence) THEN TrimEnd(SubSeq(s, 1, Len(s) - Len(Fence))) ELSE s

\* The fence stripping applied to the trimmed text: replace(/^FENCEjson\s*/, '')
\* or replace(/^FENCE\s*/, ''), then the closing fence.
StripFence(cleaned) ==
    IF StartsWith(cleaned, Fence \o JsonTag)
    THEN RemoveClosingFence(
            TrimStart(SubSeq(cleaned, Len(Fence \o JsonTag) + 1, Len(cleaned))))
    ELSE IF StartsWith(cleaned, Fence)
    THEN RemoveClosingFence(TrimStart(SubSeq(cleaned, Len(Fence) + 1, Len(cleaned))))
    ELSE cleaned

\* '"summary":'
SummaryKey == <<"\"", "s", "u", "m", "m", "a", "r", "y", "\"", ":">>

\* '"recommendations":'
RecommendationsKey == <<"\"", "r", "e", "c", "o", "m", "m", "e", "n", "d", "a", "t", "i", "o",
      "n", "s", "\"", ":">>

\* '", "recommendations": "Please review the detailed analysis above"}'
RecommendationsPatch ==
    <<"\"", ",", " ", "\"", "r", "e", "c", "o", "m", "m", "e", "n", "d", "a",
      "t", "i", "o", "n", "s", "\"", ":", " ", "\"", "P", "l", "e", "a", "s",
      "e", " ", "r", "e", "v", "i", "e", "w", " ", "t", "h", "e", " ", "d",
      "e", "t", "a", "i", "l", "e", "d", " ", "a", "n", "a", "l", "y", "s",
      "i", "s", " ", "a", "b", "o", "v", "e", "\"", "}">>

\* Whether the text looks truncated.
LooksTruncated(c) == ~EndsWith(c, <<"}">>) /\ ~EndsWith(c, <<"\"", "}">>)

\* Variant of the truncation repair that closes the object unconditionally.
RepairTruncationAlways(c) == c \o <<"}">>

\* The truncation repair of analyzeContentWithStatement.
RepairTruncation(c) ==
    IF LooksTruncated(c)
    THEN IF Includes(c, SummaryKey) /\ ~Includes(c, RecommendationsKey)
         THEN c \o RecommendationsPatch
         ELSE IF ~EndsWith(c, <<"}">>) THEN c \o <<"}">> ELSE c
    ELSE c

\* Trim, fence stripping and truncation repair in the order of the code.
Clean(text) == RepairTruncation(StripFence(Trim(text)))

(***************************************************************************)
(* JSON values and JSON.parse                                              *)
(*                                                                         *)
(* A value is a record [t, n, s, items]: t the type, n the number (or 1/0  *)
(* for true/false), s the characters of a string (or the key of an object  *)
(* entry), items the elements of an array, the entries of an object or the *)
(* value of an entry.  The grammar is JSON's for the characters the model  *)
(* texts use: numbers are integers, escapes are \" \\ \/ \n \t \r.         *)
(***************************************************************************)
JNull == [t |-> "null", n |-> 0, s |-> <<>>, items |-> <<>>]

JBool(b) == [t |-> "bool", n |-> IF b THEN 1 ELSE 0, s |-> <<>>, items |-> <<>>]

JNum(k) == [t |-> "num", n |-> k, s |-> <<>>, items |-> <<>>]

JStr(chars) == [t |-> "str", n |-> 0, s |-> chars, items |-> <<>>]

JArr(elems) == [t |-> "arr", n |-> 0, s |-> <<>>, items |-> elems]

JObj(entries) == [t |-> "obj", n |-> 0, s |-> <<>>, items |-> entries]

JEntry(key, val) == [t |-> "entry", n |-> 0, s |-> key, items |-> <<val>>]

HasKey(obj, key) == \E i \in 1..Len(obj.items) : obj.items[i].s = key

KeyIndex(obj, key) == CHOOSE i \in 1..Len(obj.items) : obj.items[i].s = key

GetKey(obj, key) == obj.items[KeyIndex(obj, key)].items[1]

\* obj[key] = val: an existing property keeps its place.
SetKey(obj, key, val) ==
    IF HasKey(obj, key)
    THEN [obj EXCEPT !.items[KeyIndex(obj, key)] = JEntry(key, val)]
    ELSE [obj EXCEPT !.items = Append(@, JEntry(key, val))]

\* !v for a property value that exists.
IsFalsy(v) ==
    \/ v.t = "null"
    \/ v.t = "bool" /\ v.n = 0
    \/ v.t = "num" /\ v.n = 0
    \/ v.t = "str" /\ v.s = <<>>

ParseFail == [ok |-> FALSE, val |-> JNull, pos |-> 0]

ParseOk(v, next) == [ok |-> TRUE, val |-> v, pos |-> next]

JsonWs == {" ", "\t", "\n", "\r"}

ControlChars == {"\t", "\n", "\r", "\f"}

Digits == <<"0", "1", "2", "3", "4", "5", "6", "7", "8", "9">>

IsDigit(c) == \E d \in 1..10 : Digits[d] = c

DigitVal(c) == (CHOOSE d \in 1..10 : Digits[d] = c) - 1

Escapable == {"\"", "\\", "/", "n", "t", "r"}

Unescape(c) ==
    CASE c = "n" -> "\n" [] c = "t" -> "\t" [] c = "r" -> "\r" [] OTHER -> c

LitAt(s, i, lit) == i + Len(lit) - 1 <= Len(s) /\ SubSeq(s, i, i + Len(lit) - 1) = lit

RECURSIVE SkipWs(_, _)
SkipWs(s, i) == IF i <= Len(s) /\ s[i] \in JsonWs THEN SkipWs(s, i + 1) ELSE i

\* A character that ends a run of plain string characters.
EndsPlain(c) == c \in {"\"", "\\"} \cup ControlChars

\* The first position from i on that holds a quote, a backslash or a control
\* character; Len(s) + 1 when there is none.
PlainEnd(s, i) ==
    CHOOSE j \in i..(Len(s) + 1) :
        \A k \in {i} : /\ j = Len(s) + 1 \/ EndsPlain(s[j])
                       /\ \A n \in k..(j - 1) : ~EndsPlain(s[n])

\* The rest of a string whose opening quote is before position i: the plain
\* characters from i up to position j, the next quote or escape, are taken
\* at once.
RECURSIVE ScanString(_, _, _)
RECURSIVE ScanPlain(_, _, _, _)
ScanPlain(s, i, j, acc) ==
    IF j > Len(s) THEN ParseFail
    ELSE IF s[j] = "\"" THEN ParseOk(JStr(acc \o SubSeq(s, i, j - 1)), j + 1)
    ELSE IF s[j] \in ControlChars THEN ParseFail
    ELSE IF j + 1 <= Len(s) /\ s[j + 1] \in Escapable
    THEN ScanString(s, j + 2, Append(acc \o SubSeq(s, i, j - 1), Unescape(s[j + 1])))
    ELSE ParseFail

ScanString(s, i, acc) ==
    CHOOSE r \in {ScanPlain(s, from, PlainEnd(s, from), acc) : from \in {i}} : TRUE

RECURSIVE ScanDigits(_, _, _)
ScanDigits(s, i, acc) ==
    IF i <= Len(s) /\ IsDigit(s[i])
    THEN ScanDigits(s, i + 1, acc * 10 + DigitVal(s[i]))
    ELSE ParseOk(JNum(acc), i)

\* A number starting at position i: -? (0 | [1-9][0-9]*)
ParseNumber(s, i) ==
    LET neg == s[i] = "-"
        j   == IF neg THEN i + 1 ELSE i
    IN  IF j > Len(s) \/ ~IsDigit(s[j]) THEN ParseFail
        ELSE IF s[j] = "0" THEN ParseOk(JNum(0), j + 1)
        ELSE LET r == ScanDigits(s, j, 0)
             IN  IF neg THEN ParseOk(JNum(0 - r.val.n), r.pos) ELSE r

RECURSIVE ParseValue(_, _)
RECURSIVE ParseElements(_, _, _)
RECURSIVE ParseMembers(_, _, _)

ParseValue(s, from) ==
    LET i == SkipWs(s, from)
    IN  IF i > Len(s) THEN ParseFail
        ELSE IF s[i] = "{"
        THEN LET j == SkipWs(s, i + 1)
             IN  IF j <= Len(s) /\ s[j] = "}" THEN ParseOk(JObj(<<>>), j + 1)
                 ELSE ParseMembers(s, j, JObj(<<>>))
        ELSE IF s[i] = "["
        THEN LET j == SkipWs(s, i + 1)
             IN  IF j <= Len(s) /\ s[j] = "]" THEN ParseOk(JArr(<<>>), j + 1)
                 ELSE ParseElements(s, j, <<>>)
        ELSE IF s[i] = "\"" THEN ScanString(s, i + 1, <<>>)
        ELSE IF s[i] = "-" \/ IsDigit(s[i]) THEN ParseNumber(s, i)
        ELSE IF LitAt(s, i, <<"t", "r", "u", "e">>) THEN ParseOk(JBool(TRUE), i + 4)
        ELSE IF LitAt(s, i, <<"f", "a", "l", "s", "e">>) THEN ParseOk(JBool(FALSE), i + 5)
        ELSE IF LitAt(s, i, <<"n", "u", "l", "l">>) THEN ParseOk(JNull, i + 4)
        ELSE ParseFail

\* The elements of an array from position from on, a value expected first.
ParseElements(s, from, acc) ==
    LET r == ParseValue(s, from)
    IN  IF ~r.ok THEN ParseFail
        ELSE LET j == SkipWs(s, r.pos)
             IN  IF j > Len(s) THEN ParseFail
                 ELSE IF s[j] = "," THEN ParseElements(s, j + 1, Append(acc, r.val))
                 ELSE IF s[j] = "]" THEN ParseOk(JArr(Append(acc, r.val)), j + 1)
                 ELSE ParseFail

\* The members of an object from position from on, a key expected first; a
\* repeated key overwrites.
ParseMembers(s, from, obj) ==
    LET i == SkipWs(s, from)
    IN  IF i > Len(s) \/ s[i] # "\"" THEN ParseFail
        ELSE LET k == ScanString(s, i + 1, <<>>)
             IN  IF ~k.ok THEN ParseFail
                 ELSE LET c == SkipWs(s, k.pos)
                      IN  IF c > Len(s) \/ s[c] # ":" THEN ParseFail
                          ELSE LET v == ParseValue(s, c + 1)
                               IN  IF ~v.ok THEN ParseFail
                                   ELSE LET j == SkipWs(s, v.pos)
                                            o == SetKey(obj, k.val.s, v.val)
                                        IN  IF j > Len(s) THEN ParseFail
                                            ELSE IF s[j] = "," THEN ParseMembers(s, j + 1, o)
                                            ELSE IF s[j] = "}" THEN ParseOk(o, j + 1)
                                            ELSE ParseFail

\* JSON.parse: ok = FALSE stands for the SyntaxError.
JSONparse(s) ==
    LET r == ParseValue(s, 1)
    IN  IF r.ok /\ SkipWs(s, r.pos) > Len(s) THEN r ELSE ParseFail

(***************************************************************************)
(* Recovery of the analysis record                                         *)
(***************************************************************************)
\* Property names and fixed strings of the records.
K_score == <<"s", "c", "o", "r", "e">>

K_overall_score == <<"o", "v", "e", "r", "a", "l", "l", "_", "s", "c", "o", "r", "e">>

K_subject == <<"s", "u", "b", "j", "e", "c", "t">>

K_errors == <<"e", "r", "r", "o", "r", "s">>

K_corrections == <<"c", "o", "r", "r", "e", "c", "t", "i", "o", "n", "s">>

K_summary == <<"s", "u", "m", "m", "a", "r", "y">>

K_raw_response == <<"r", "a", "w", "_", "r", "e", "s", "p", "o", "n", "s", "e">>

K_statement_used == <<"s", "t", "a", "t", "e", "m", "e", "n", "t", "_", "u", "s", "e", "d">>

K_question_analysis == <<"q", "u", "e", "s", "t", "i", "o", "n", "_", "a", "n", "a", "l", "y",
      "s", "i", "s">>

K_recommendations == <<"r", "e", "c", "o", "m", "m", "e", "n", "d", "a", "t", "i", "o", "n",
      "s">>

Unknown == <<"U", "n", "k", "n", "o", "w", "n">>

\* 'Analysis completed but formatting issues occurred. Please review manually.'
FormattingIssuesNote ==
    <<"A", "n", "a", "l", "y", "s", "i", "s", " ", "c", "o", "m", "p", "l",
      "e", "t", "e", "d", " ", "b", "u", "t", " ", "f", "o", "r", "m", "a",
      "t", "t", "i", "n", "g", " ", "i", "s", "s", "u", "e", "s", " ", "o",
      "c", "c", "u", "r", "r", "e", "d", ".", " ", "P", "l", "e", "a", "s",
      "e", " ", "r", "e", "v", "i", "e", "w", " ", "m", "a", "n", "u", "a",
      "l", "l", "y", ".">>

\* 'Please review the analysis manually'
ReviewManuallyNote ==
    <<"P", "l", "e", "a", "s", "e", " ", "r", "e", "v", "i", "e", "w", " ",
      "t", "h", "e", " ", "a", "n", "a", "l", "y", "s", "i", "s", " ", "m",
      "a", "n", "u", "a", "l", "l", "y">>

\* The structured fallback of analyzeContent.
BasicFallback(analysisText) ==
    JObj(<<JEntry(K_score, JNum(0)),
           JEntry(K_subject, JStr(Unknown)),
           JEntry(K_errors, JArr(<<>>)),
           JEntry(K_corrections, JArr(<<>>)),
           JEntry(K_summary, JStr(analysisText)),
           JEntry(K_raw_response, JStr(analysisText))>>)

\* The structured fallback of analyzeContentWithStatement.
\* Variant of the fallback that keeps the trimmed text as raw_response.
StatementFallbackTrimmed(analysisText) ==
    JObj(<<JEntry(K_overall_score, JNum(0)),
           JEntry(K_subject, JStr(Unknown)),
           JEntry(K_statement_used, JBool(TRUE)),
           JEntry(K_question_analysis, JArr(<<>>)),
           JEntry(K_summary, JStr(FormattingIssuesNote)),
           JEntry(K_recommendations, JStr(ReviewManuallyNote)),
           JEntry(K_raw_response, JStr(Trim(analysisText)))>>)

StatementFallback(analysisText) ==
    JObj(<<JEntry(K_overall_score, JNum(0)),
           JEntry(K_subject, JStr(Unknown)),
           JEntry(K_statement_used, JBool(TRUE)),
           JEntry(K_question_analysis, JArr(<<>>)),
           JEntry(K_summary, JStr(FormattingIssuesNote)),
           JEntry(K_recommendations, JStr(ReviewManuallyNote)),
           JEntry(K_raw_response, JStr(analysisText))>>)

\* Variant of the required-field default that always resets the field.
EnsureQuestionAnalysisAlways(parsed) ==
    IF parsed.t = "obj"
    THEN [ok |-> TRUE, val |-> SetKey(parsed, K_question_analysis, JArr(<<>>))]
    ELSE [ok |-> parsed.t = "arr", val |-> parsed]

\* if (!parsedAnalysis.question_analysis) parsedAnalysis.question_analysis = []
\* ok = FALSE stands for the TypeError of reading a property of null or (in
\* the strict mode of a class body) of assigning one to a primitive.
EnsureQuestionAnalysis(parsed) ==
    IF parsed.t = "obj"
    THEN IF HasKey(parsed, K_question_analysis)
            /\ ~IsFalsy(GetKey(parsed, K_question_analysis))
         THEN [ok |-> TRUE, val |-> parsed]
         ELSE [ok |-> TRUE, val |-> SetKey(parsed, K_question_analysis, JArr(<<>>))]
    ELSE [ok |-> parsed.t = "arr", val |-> parsed]

\* analyzeContent from the JSON.parse attempt on: the value returned and the
\* stages passed.
RecoverBasic(analysisText) ==
    LET parsed == JSONparse(analysisText)
    IN  IF parsed.ok
        THEN [value |-> parsed.val, stripped |-> analysisText, parsedText |-> analysisText,
              trace |-> <<"RECEIVED", "PARSED">>]
        ELSE [value |-> BasicFallback(analysisText), stripped |-> analysisText,
              parsedText |-> analysisText, trace |-> <<"RECEIVED", "DEGRADED">>]

\* Variant of the recovery that, when the parse fails, closes the object once
\* more and parses again.
RecoverWithStatementReparse(analysisText) ==
    LET stripped == StripFence(Trim(analysisText))
        cleaned  == RepairTruncation(stripped)
        parsed   == JSONparse(cleaned)
        ensured  == EnsureQuestionAnalysis(parsed.val)
        stages   == IF LooksTruncated(stripped)
                    THEN <<"RECEIVED", "CLEANED", "TRUNCATION_REPAIRED">>
                    ELSE <<"RECEIVED", "CLEANED">>
        again    == JSONparse(cleaned \o <<"}">>)
    IN  IF parsed.ok /\ ensured.ok
        THEN [value |-> ensured.val, stripped |-> stripped, parsedText |-> cleaned,
              trace |-> Append(stages, "PARSED")]
        ELSE IF again.ok /\ again.val.t = "obj"
        THEN [value |-> again.val, stripped |-> stripped, parsedText |-> cleaned \o <<"}">>,
              trace |-> stages \o <<"DEGRADED", "TRUNCATION_REPAIRED", "PARSED">>]
        ELSE [value |-> StatementFallback(analysisText), stripped |-> stripped,
              parsedText |-> cleaned,
              trace |-> stages \o <<"DEGRADED", "TRUNCATION_REPAIRED", "DEGRADED">>]

\* analyzeContentWithStatement from the cleaning on.
RecoverWithStatement(analysisText) ==
    LET stripped == StripFence(Trim(analysisText))
        cleaned  == RepairTruncation(stripped)
        parsed   == JSONparse(cleaned)
        ensured  == EnsureQuestionAnalysis(parsed.val)
        stages   == IF LooksTruncated(stripped)
                    THEN <<"RECEIVED", "CLEANED", "TRUNCATION_REPAIRED">>
                    ELSE <<"RECEIVED", "CLEANED">>
    IN  IF parsed.ok /\ ensured.ok
        THEN [value |-> ensured.val, stripped |-> stripped, parsedText |-> cleaned,
              trace |-> Append(stages, "PARSED")]
        ELSE [value |-> StatementFallback(analysisText), stripped |-> stripped,
              parsedText |-> cleaned, trace |-> Append(stages, "DEGRADED")]

(***************************************************************************)
(* Texts the model may return                                              *)
(***************************************************************************)
MaxCoreTokens == 2

\* A complete statement-based analysis.
DocStatement ==
    <<"{", "\"", "o", "v", "e", "r", "a", "l", "l", "_", "s", "c", "o", "r",
      "e", "\"", ":", "8", "5", ",", "\"", "s", "u", "b", "j", "e", "c", "t",
      "\"", ":", "\"", "M", "\"", ",", "\"", "s", "t", "a", "t", "e", "m",
      "e", "n", "t", "_", "u", "s", "e", "d", "\"", ":", "t", "r", "u", "e",
      ",", "\"", "q", "u", "e", "s", "t", "i", "o", "n", "_", "a", "n", "a",
      "l", "y", "s", "i", "s", "\"", ":", "[", "{", "\"", "q", "u", "e", "s",
      "t", "i", "o", "n", "_", "n", "u", "m", "b", "e", "r", "\"", ":", "\"",
      "1", "\"", ",", "\"", "i", "s", "_", "c", "o", "r", "r", "e", "c", "t",
      "\"", ":", "t", "r", "u", "e", ",", "\"", "s", "c", "o", "r", "e",
      "\"", ":", "1", "0", "0", "}", "]", ",", "\"", "s", "u", "m", "m", "a",
      "r", "y", "\"", ":", "\"", "o", "k", "\"", ",", "\"", "r", "e", "c",
      "o", "m", "m", "e", "n", "d", "a", "t", "i", "o", "n", "s", "\"", ":",
      "\"", "r", "\"", "}">>

\* A complete basic analysis.
DocBasic ==
    <<"{", "\"", "s", "c", "o", "r", "e", "\"", ":", " ", "8", "5", ",", " ",
      "\"", "s", "u", "b", "j", "e", "c", "t", "\"", ":", " ", "\"", "M",
      "\"", ",", " ", "\"", "e", "r", "r", "o", "r", "s", "\"", ":", " ",
      "[", "]", ",", " ", "\"", "c", "o", "r", "r", "e", "c", "t", "i", "o",
      "n", "s", "\"", ":", " ", "[", "{", "\"", "q", "u", "e", "s", "t", "i",
      "o", "n", "\"", ":", " ", "\"", "Q", "1", "\"", "}", "]", ",", " ",
      "\"", "s", "u", "m", "m", "a", "r", "y", "\"", ":", " ", "\"", "s",
      "\"", "}">>

\* '{"summary": "Good work': cut inside the summary string.
TruncatedSummary ==
    <<"{", "\"", "s", "u", "m", "m", "a", "r", "y", "\"", ":", " ", "\"",
      "G", "o", "o", "d", " ", "w", "o", "r", "k">>

\* '"recommendations": "r': cut inside the recommendations string.
TruncatedRecommendations ==
    <<"\"", "r", "e", "c", "o", "m", "m", "e", "n", "d", "a", "t", "i", "o",
      "n", "s", "\"", ":", " ", "\"", "r">>

\* The fenced object with score 90.
FencedScore90 ==
    <<Tick, Tick, Tick, "j", "s", "o", "n", "\n", "{", "\"", "s", "c", "o",
      "r", "e", "\"", ":", " ", "9", "0", "}", "\n", Tick, Tick, Tick>>

CoreTokens ==
    { <<"{">>, <<"}">>, <<"\"">>, <<"[", "]">>, <<"5">>, <<"n", "u", "l", "l">>,
      <<"x">>, <<" ">>, Fence, DocStatement, DocBasic, TruncatedSummary,
      TruncatedRecommendations }

RECURSIVE CoresUpTo(_)
CoresUpTo(n) ==
    IF n = 0 THEN {<<>>}
    ELSE LET shorter == CoresUpTo(n - 1)
         IN  shorter \cup {c \o t : c \in shorter, t \in CoreTokens}

\* What may stand before and after the core of a text: nothing, white space,
\* a fence with the json tag, a bare fence, half a wrapper, another tag.
Wrappers ==
    { <<<<>>, <<>>>>,
      <<<<" ">>, <<"\n">>>>,
      <<Fence \o JsonTag \o <<"\n">>, <<"\n">> \o Fence>>,
      <<Fence \o JsonTag, Fence>>,
      <<Fence \o <<"\n">>, <<"\n">> \o Fence>>,
      <<Fence, Fence>>,
      <<Fence \o JsonTag \o <<"\n">>, <<>>>>,
      <<<<>>, <<"\n">> \o Fence>>,
      <<<<"\n">> \o Fence \o JsonTag \o <<" ", "\n">>, <<" ", "\n">> \o Fence \o <<"\n">>>>,
      <<Fence \o <<"j", "s", "\n">>, <<"\n">> \o Fence>> }

ModelTexts ==
    {w[1] \o c \o w[2] : w \in Wrappers, c \in CoresUpTo(MaxCoreTokens)}
        \cup {FencedScore90}

\* What axios.post settles with: a rejection, a body without
\* choices[0].message, or a message with this content.
Replies ==
    {[kind |-> "networkError", text |-> <<>>], [kind |-> "malformed", text |-> <<>>]}
        \cup {[kind |-> "content", text |-> t] : t \in ModelTexts}

(***************************************************************************)
(* Errors of the capability call                                           *)
(***************************************************************************)
\* The message of the error thrown inside the try block of a method for a
\* reply that is not usable content: axios' rejection, the envelope check,
\* the empty check.
EnvelopeError(call, reply) ==
    IF reply.kind = "networkError" THEN "Network Error"
    ELSE IF reply.kind = "malformed"
    THEN IF call = "extractContent"
         THEN "Invalid response structure from vision API"
         ELSE "Invalid response structure from AI service"
    ELSE IF call = "extractContent" THEN "Empty response from vision API"
    ELSE "Empty response from AI service"

\* The message of the error the outer catch of a method throws for the error
\* message cause caught.
CallFailure(call, cause) ==
    CASE call = "extractContent" -> "Failed to extract content from images"
      [] call = "analyzeContent" -> "Failed to analyze content"
      [] call = "analyzeContentWithStatement" ->
            "Failed to analyze content with statement context"
      [] call = "generateQuiz" -> "Quiz generation failed: " \o cause

\* A reply without usable content.
Unusable(reply) == reply.kind # "content" \/ reply.text = <<>>

(***************************************************************************)
(* AIService.analyzeContent and analyzeContentWithStatement                *)
(***************************************************************************)
AiPending == [status |-> "pending", value |-> JNull, error |-> ""]

AiReturned(v) == [status |-> "returned", value |-> v, error |-> ""]

AiThrew(msg) == [status |-> "threw", value |-> JNull, error |-> msg]

RecIdle ==
    /\ aiPc = "idle"
    /\ aiCall = "none"
    /\ aiReply = [kind |-> "none", text |-> <<>>]
    /\ aiStripped = <<>>
    /\ aiParsedText = <<>>
    /\ aiTrace = <<>>
    /\ aiResult = AiPending

\* The call up to the await of axios.post.
AnalyzeContent ==
    /\ aiPc = "idle"
    /\ aiPc' = "awaiting"
    /\ aiCall' = "analyzeContent"
    /\ UNCHANGED <<aiReply, aiStripped, aiParsedText, aiTrace, aiResult>>
    /\ UNCHANGED outsideRec

AnalyzeContentWithStatement ==
    /\ aiPc = "idle"
    /\ aiPc' = "awaiting"
    /\ aiCall' = "analyzeContentWithStatement"
    /\ UNCHANGED <<aiReply, aiStripped, aiParsedText, aiTrace, aiResult>>
    /\ UNCHANGED outsideRec

\* The recovery stage of the method named call.
Recover(call, analysisText) ==
    IF call = "analyzeContent" THEN RecoverBasic(analysisText)
    ELSE RecoverWithStatement(analysisText)

\* The rest of the call of the method named aiCall, whose outer catch throws
\* failure.
Settle(failure) ==
    /\ aiPc = "awaiting"
    /\ aiPc' = "done"
    /\ \E reply \in Replies :
          /\ aiReply' = reply
          /\ IF reply.kind # "content" \/ reply.text = <<>>
             THEN /\ aiResult' = AiThrew(failure)
                  /\ UNCHANGED <<aiStripped, aiParsedText, aiTrace>>
             ELSE LET r == Recover(aiCall, reply.text)
                  IN  /\ aiResult' = AiReturned(r.value)
                      /\ aiStripped' = r.stripped
                      /\ aiParsedText' = r.parsedText
                      /\ aiTrace' = r.trace
    /\ UNCHANGED aiCall
    /\ UNCHANGED outsideRec

\* analyzeContent after the await: envelope check, empty check, parse, fallback.
AnalyzeContentReply ==
    /\ aiCall = "analyzeContent"
    /\ Settle(CallFailure("analyzeContent", ""))

\* analyzeContentWithStatement after the await.
AnalyzeContentWithStatementReply ==
    /\ aiCall = "analyzeContentWithStatement"
    /\ Settle(CallFailure("analyzeContentWithStatement", ""))

(***************************************************************************)
(* AIService.extractContent                                                *)
(***************************************************************************)
\* What the vision model may send: a rejection, a body without
\* choices[0].message, an empty content, a content.
ExtractedContents == {<<>>, <<" ">>, <<"Q", "1">>, DocBasic}

ExtractReplies ==
    {[kind |-> "networkError", text |-> <<>>], [kind |-> "malformed", text |-> <<>>]}
        \cup {[kind |-> "content", text |-> t] : t \in ExtractedContents}

\* The call up to the await of axios.post.
ExtractContent ==
    /\ aiPc = "idle"
    /\ aiPc' = "awaiting"
    /\ aiCall' = "extractContent"
    /\ UNCHANGED <<aiReply, aiStripped, aiParsedText, aiTrace, aiResult>>
    /\ UNCHANGED outsideRec

\* extractContent after the await: envelope check, empty check, return.
ExtractContentReply ==
    /\ aiPc = "awaiting"
    /\ aiCall = "extractContent"
    /\ aiPc' = "done"
    /\ \E reply \in ExtractReplies :
          /\ aiReply' = reply
          /\ aiResult' = IF Unusable(reply)
                         THEN AiThrew(CallFailure(aiCall, EnvelopeError(aiCall, reply)))
                         ELSE AiReturned(JStr(reply.text))
    /\ UNCHANGED <<aiCall, aiStripped, aiParsedText, aiTrace>>
    /\ UNCHANGED outsideRec

(***************************************************************************)
(* Texts the model may return for a quiz or for a question extraction      *)
(***************************************************************************)
MaxQuizQuestions == 2

\* A multiple choice question with two options.
QuestionMc ==
    <<"{", "\"", "t", "y", "p", "e", "\"", ":", "\"", "m", "u", "l", "t",
      "i", "p", "l", "e", "_", "c", "h", "o", "i", "c", "e", "\"", ",", "\"",
      "q", "u", "e", "s", "t", "i", "o", "n", "\"", ":", "\"", "Q", "\"",
      ",", "\"", "o", "p", "t", "i", "o", "n", "s", "\"", ":", "[", "\"",
      "a", "\"", ",", "\"", "b", "\"", "]", ",", "\"", "c", "o", "r", "r",
      "e", "c", "t", "A", "n", "s", "w", "e", "r", "\"", ":", "\"", "a",
      "\"", "}">>

\* An open question with an id.
QuestionOpen ==
    <<"{", "\"", "i", "d", "\"", ":", "7", ",", "\"", "t", "y", "p", "e",
      "\"", ":", "\"", "o", "p", "e", "n", "\"", ",", "\"", "q", "u", "e",
      "s", "t", "i", "o", "n", "\"", ":", "\"", "Q", "\"", ",", "\"", "c",
      "o", "r", "r", "e", "c", "t", "A", "n", "s", "w", "e", "r", "\"", ":",
      "\"", "a", "\"", "}">>

\* A question without correctAnswer.
QuestionNoAnswer ==
    <<"{", "\"", "t", "y", "p", "e", "\"", ":", "\"", "o", "p", "e", "n",
      "\"", ",", "\"", "q", "u", "e", "s", "t", "i", "o", "n", "\"", ":",
      "\"", "Q", "\"", "}">>

\* A multiple choice question with one option.
QuestionOneOption ==
    <<"{", "\"", "t", "y", "p", "e", "\"", ":", "\"", "m", "u", "l", "t",
      "i", "p", "l", "e", "_", "c", "h", "o", "i", "c", "e", "\"", ",", "\"",
      "q", "u", "e", "s", "t", "i", "o", "n", "\"", ":", "\"", "Q", "\"",
      ",", "\"", "o", "p", "t", "i", "o", "n", "s", "\"", ":", "[", "\"",
      "a", "\"", "]", ",", "\"", "c", "o", "r", "r", "e", "c", "t", "A", "n",
      "s", "w", "e", "r", "\"", ":", "\"", "a", "\"", "}">>

QuestionTexts ==
    {QuestionMc, QuestionOpen, QuestionNoAnswer, QuestionOneOption,
     <<"n", "u", "l", "l">>, <<"5">>}

\* The texts of the lists of at most n questions, without the brackets.
RECURSIVE QuestionLists(_)
QuestionLists(n) ==
    IF n = 0 THEN {<<>>}
    ELSE LET shorter == QuestionLists(n - 1)
         IN  shorter \cup {IF l = <<>> THEN q ELSE l \o <<",">> \o q :
                               l \in shorter, q \in QuestionTexts}

QuestionsOpen == <<"{", "\"", "q", "u", "e", "s", "t", "i", "o", "n", "s", "\"", ":", "[">>

\* Objects with a questions array, objects without one, other JSON values,
\* text that is not JSON, white space.
QuizCores ==
    {QuestionsOpen \o l \o <<"]", "}">> : l \in QuestionLists(MaxQuizQuestions)}
        \cup { <<"{", "}">>, <<"{", "\"", "q", "u", "e", "s", "t", "i", "o", "n", "s", "\"", ":", "5",
      "}">>,
               <<"{", "\"", "q", "u", "e", "s", "t", "i", "o", "n", "s", "\"", ":", "n",
      "u", "l", "l", "}">>, <<"{", "\"", "q", "u", "i", "z", "\"", ":", "[", "]", "}">>,
               <<"n", "u", "l", "l">>, <<"[", "]">>, <<"5">>, <<"x">>, <<" ">>,
               QuestionsOpen \o QuestionMc }

QuizWrappers ==
    { <<<<>>, <<>>>>,
      <<<<" ">>, <<"\n">>>>,
      <<Fence \o JsonTag \o <<"\n">>, <<"\n">> \o Fence>>,
      <<Fence \o <<"\n">>, <<"\n">> \o Fence>> }

QuizTexts == {<<>>} \cup {w[1] \o c \o w[2] : w \in QuizWrappers, c \in QuizCores}

QuizReplies ==
    {[kind |-> "networkError", text |-> <<>>], [kind |-> "malformed", text |-> <<>>]}
        \cup {[kind |-> "content", text |-> t] : t \in QuizTexts}

(***************************************************************************)
(* AIService.generateQuiz                                                  *)
(***************************************************************************)
K_questions == <<"q", "u", "e", "s", "t", "i", "o", "n", "s">>

K_type == <<"t", "y", "p", "e">>

K_question == <<"q", "u", "e", "s", "t", "i", "o", "n">>

K_correctAnswer == <<"c", "o", "r", "r", "e", "c", "t", "A", "n", "s", "w", "e", "r">>

K_options == <<"o", "p", "t", "i", "o", "n", "s">>

K_id == <<"i", "d">>

MultipleChoice == <<"m", "u", "l", "t", "i", "p", "l", "e", "_", "c", "h", "o", "i", "c",
      "e">>

\* v.key is truthy; a property of a primitive or of an array that JSON.parse
\* made is undefined.
PropTruthy(v, key) == v.t = "obj" /\ HasKey(v, key) /\ ~IsFalsy(GetKey(v, key))

QuizOk(v) == [ok |-> TRUE, val |-> v, error |-> ""]

QuizError(msg) == [ok |-> FALSE, val |-> JNull, error |-> msg]

\* The callback of quizData.questions.map for the question q at index.
ValidateQuestion(q, index) ==
    IF q.t = "null"
    THEN QuizError("Cannot read properties of null (reading 'type')")
    ELSE IF ~PropTruthy(q, K_type) \/ ~PropTruthy(q, K_question)
            \/ ~PropTruthy(q, K_correctAnswer)
    THEN QuizError("Invalid question at index " \o ToString(index)
                       \o ": missing required fields")
    ELSE IF /\ GetKey(q, K_type) = JStr(MultipleChoice)
            /\ \/ ~PropTruthy(q, K_options)
               \/ GetKey(q, K_options).t # "arr"
               \/ Len(GetKey(q, K_options).items) < 2
    THEN QuizError("Invalid multiple choice question at index " \o ToString(index)
                       \o ": insufficient options")
    ELSE QuizOk(JObj(<<JEntry(K_id, IF PropTruthy(q, K_id) THEN GetKey(q, K_id)
                                    ELSE JNum(index + 1)),
                       JEntry(K_type, GetKey(q, K_type)),
                       JEntry(K_question, GetKey(q, K_question)),
                       JEntry(K_options, IF PropTruthy(q, K_options)
                                         THEN GetKey(q, K_options) ELSE JNull),
                       JEntry(K_correctAnswer, GetKey(q, K_correctAnswer))>>))

\* quizData.questions.map(...) from position i on: the first question that
\* does not validate throws.
RECURSIVE ValidateQuestions(_, _, _)
ValidateQuestions(questions, i, validated) ==
    IF i > Len(questions) THEN QuizOk(JArr(validated))
    ELSE LET v == ValidateQuestion(questions[i], i - 1)
         IN  IF v.ok THEN ValidateQuestions(questions, i + 1, Append(validated, v.val))
             ELSE v

\* The inner try block of generateQuiz.  The message of JSON.parse's
\* SyntaxError depends on the text and on the engine; one message stands for
\* all of them.
CheckQuiz(quizData) ==
    IF ~quizData.ok THEN QuizError("Unexpected token in JSON")
    ELSE IF quizData.val.t = "null"
    THEN QuizError("Cannot read properties of null (reading 'questions')")
    ELSE IF ~PropTruthy(quizData.val, K_questions)
            \/ GetKey(quizData.val, K_questions).t # "arr"
    THEN QuizError("Invalid quiz format: missing questions array")
    ELSE ValidateQuestions(GetKey(quizData.val, K_questions).items, 1, <<>>)

ParseQuiz(cleanedResponse) == CheckQuiz(JSONparse(cleanedResponse))

\* generateQuiz from the cleaning on: the validated questions, or the error
\* of the inner catch handed to the outer catch.
QuizRecord(stripped, quiz) ==
    IF quiz.ok
    THEN [result |-> AiReturned(quiz.val), stripped |-> stripped,
          parsedText |-> stripped, trace |-> <<"RECEIVED", "CLEANED", "PARSED">>]
    ELSE [result |-> AiThrew(CallFailure("generateQuiz",
                                 "Failed to parse quiz response: " \o quiz.error)),
          stripped |-> stripped, parsedText |-> stripped,
          trace |-> <<"RECEIVED", "CLEANED">>]

ParseCleanedQuiz(cleanedResponse) == QuizRecord(cleanedResponse, ParseQuiz(cleanedResponse))

RecoverQuiz(quizText) == ParseCleanedQuiz(StripFence(Trim(quizText)))

\* The end of a call whose recovery gave r.
Deliver(r) ==
    /\ aiResult' = r.result
    /\ aiStripped' = r.stripped
    /\ aiParsedText' = r.parsedText
    /\ aiTrace' = r.trace

\* The call up to the await of axios.post.
GenerateQuiz ==
    /\ aiPc = "idle"
    /\ aiPc' = "awaiting"
    /\ aiCall' = "generateQuiz"
    /\ UNCHANGED <<aiReply, aiStripped, aiParsedText, aiTrace, aiResult>>
    /\ UNCHANGED outsideRec

\* generateQuiz after the await.
GenerateQuizReply ==
    /\ aiPc = "awaiting"
    /\ aiCall = "generateQuiz"
    /\ aiPc' = "done"
    /\ \E reply \in QuizReplies :
          /\ aiReply' = reply
          /\ IF Unusable(reply)
             THEN /\ aiResult' = AiThrew(CallFailure(aiCall, EnvelopeError(aiCall, reply)))
                  /\ UNCHANGED <<aiStripped, aiParsedText, aiTrace>>
             ELSE Deliver(RecoverQuiz(reply.text))
    /\ UNCHANGED aiCall
    /\ UNCHANGED outsideRec

(***************************************************************************)
(* StatementService.parseQuestionsFromContent                              *)
(***************************************************************************)
\* parseQuestionsFromContent from the cleaning on: a text that does not
\* parse, and a TypeError of reading questions of null, give [].
QuestionsRecord(stripped, parsed) ==
    [result |-> AiReturned(IF parsed.ok /\ PropTruthy(parsed.val, K_questions)
                           THEN GetKey(parsed.val, K_questions)
                           ELSE JArr(<<>>)),
     stripped |-> stripped, parsedText |-> stripped,
     trace |-> IF parsed.ok /\ parsed.val.t # "null"
               THEN <<"RECEIVED", "CLEANED", "PARSED">>
               ELSE <<"RECEIVED", "CLEANED", "DEGRADED">>]

ParseCleanedQuestions(cleanedResponse) ==
    QuestionsRecord(cleanedResponse, JSONparse(cleanedResponse))

RecoverQuestions(analysisText) == ParseCleanedQuestions(StripFence(Trim(analysisText)))

\* The call up to the await of axios.post.
ParseQuestionsFromContent ==
    /\ aiPc = "idle"
    /\ aiPc' = "awaiting"
    /\ aiCall' = "parseQuestionsFromContent"
    /\ UNCHANGED <<aiReply, aiStripped, aiParsedText, aiTrace, aiResult>>
    /\ UNCHANGED outsideRec

\* parseQuestionsFromContent after the await: a rejection and a body without
\* choices[0].message end in the outer catch, which returns [].
ParseQuestionsFromContentReply ==
    /\ aiPc = "awaiting"
    /\ aiCall = "parseQuestionsFromContent"
    /\ aiPc' = "done"
    /\ \E reply \in QuizReplies :
          /\ aiReply' = reply
          /\ IF reply.kind # "content"
             THEN /\ aiResult' = AiReturned(JArr(<<>>))
                  /\ UNCHANGED <<aiStripped, aiParsedText, aiTrace>>
             ELSE Deliver(RecoverQuestions(reply.text))
    /\ UNCHANGED aiCall
    /\ UNCHANGED outsideRec

RecNext ==
    \/ AnalyzeContent
    \/ AnalyzeContentWithStatement
    \/ AnalyzeContentReply
    \/ AnalyzeContentWithStatementReply
    \/ ExtractContent
    \/ ExtractContentReply
    \/ GenerateQuiz
    \/ GenerateQuizReply
    \/ ParseQuestionsFromContent
    \/ ParseQuestionsFromContentReply

\* No processFile call.
DocIdle ==
    /\ file = [originalname |-> <<>>, mimetype |-> ""]
    /\ pdf2pic = FALSE
    /\ pc = "idle"
    /\ images = <<>>
    /\ pageNum = 1
    /\ hasMorePages = TRUE
    /\ attempts = <<>>
    /\ tier2 = "notInvoked"
    /\ pdfText = NoText
    /\ result = Pending

(***************************************************************************)
(* server.js: the upload routes, the statement routes and the temporary    *)
(* files in uploads/; StatementService                                     *)
(*                                                                         *)
(* One upload request is handled at a time; the statement routes, which    *)
(* do not await, are served at any moment, also while the handler of the   *)
(* upload request awaits.  The multer middleware has accepted the request  *)
(* and stored its files before the handler runs; a path is the number of   *)
(* the stored file.  The outcome of an awaited call (processFile, the      *)
(* AIService call, the extraction of the questions) is an input: it        *)
(* resolves or rejects.  fs.unlinkSync succeeds or throws.  The id of a    *)
(* statement is <<idCounter, Date.now()>>; two statements are not          *)
(* processed within the same millisecond.                                  *)
(***************************************************************************)
MaxFiles == 2

MaxRequests == 2

UploadRoutes == {"/api/analyze", "/api/statement", "/api/quiz/upload"}

Outcomes == {"resolved", "rejected"}

\* No statement id: statement_id absent from the body, activeStatement null.
NoStatement == <<0, 0>>

\* The paths multer gives the n files of a request: file.path of each.
StoredPaths(n) == [i \in 1..n |-> fileCount + i]

PathsOf(files) == {files[i] : i \in 1..Len(files)}

\* fileProcessor.cleanup(filePath): what is left in uploads/.
Cleanup(filePath, unlinked) ==
    IF filePath \in uploads /\ unlinked THEN uploads \ {filePath} ELSE uploads

\* fileProcessor.cleanup(filePath): fs.unlinkSync threw, and was only logged.
CleanupFailed(filePath, unlinked) == filePath \in uploads /\ ~unlinked

\* The keys of StatementService.documents.
StatementIds == {documents[i].id : i \in 1..Len(documents)}

\* this.documents.get(id) for a key of documents.
Statement(id) == documents[CHOOSE i \in 1..Len(documents) : documents[i].id = id]

\* An id that no statement ever had.
UnknownStatement == <<0, 1>>

\* The ids a request can name: the ids of documents, the ids of removed
\* statements that are still around, and an unknown one.
NamedIds ==
    StatementIds \cup {e.id : e \in questionCache} \cup ({statementId} \ {NoStatement})
        \cup {UnknownStatement}

\* StatementService.getQuestions(statementId): the number of questions.
GetQuestions(id) ==
    IF \E e \in questionCache : e.id = id
    THEN (CHOOSE e \in questionCache : e.id = id).questions
    ELSE IF id \in StatementIds THEN Statement(id).questions
    ELSE 0

\* No call of selectStatement, removeStatement or cleanup yet.
NoCall == [op |-> "none", ok |-> TRUE]

\* The server after app.listen: nothing uploaded, nothing stored.
UpIdle ==
    /\ uploads = {}
    /\ fileCount = 0
    /\ upRoute = "none"
    /\ upPc = "idle"
    /\ reqFiles = <<>>
    /\ fileIndex = 1
    /\ results = <<>>
    /\ resStatus = 0
    /\ statementId = NoStatement
    /\ documents = <<>>
    /\ questionCache = {}
    /\ idCounter = 1
    /\ courseContents = {}
    /\ served = 0
    /\ unlinkFailed = FALSE
    /\ reqStatementId = NoStatement
    /\ statementQuestions = 0 - 1
    /\ statementUsed = FALSE
    /\ activeStatement = NoStatement
    /\ now = 0
    /\ stCall = NoCall

\* res.status(code).json(..) or res.json(..): the handler has answered.
Respond(code) ==
    /\ upPc' = "responded"
    /\ resStatus' = code

\* fileProcessor.upload (multer) stores the files of a request to one of the
\* upload routes, then the handler starts.  The body of /api/analyze may
\* name a statement.
Upload ==
    /\ upPc \in {"idle", "responded"}
    /\ served < MaxRequests
    /\ \E route \in UploadRoutes, n \in 0..MaxFiles :
        /\ upRoute' = route
        /\ reqFiles' = StoredPaths(n)
        /\ uploads' = uploads \cup PathsOf(StoredPaths(n))
        /\ fileCount' = fileCount + n
        /\ \E id \in {NoStatement} \cup NamedIds :
            /\ route # "/api/analyze" => id = NoStatement
            /\ reqStatementId' = id
    /\ upPc' = "handling"
    /\ fileIndex' = 1
    /\ results' = <<>>
    /\ resStatus' = 0
    /\ statementId' = NoStatement
    /\ statementQuestions' = 0 - 1
    /\ statementUsed' = FALSE
    /\ served' = served + 1
    /\ UNCHANGED <<courseContents, unlinkFailed, stateVars>>
    /\ UNCHANGED outsideUp

\* POST /api/analyze with no file: 400.
AnalyzeNoFiles ==
    /\ upRoute = "/api/analyze" /\ upPc = "handling"
    /\ Len(reqFiles) = 0
    /\ Respond(400)
    /\ UNCHANGED <<upRoute, reqFiles, fileIndex, results, statementId, served,
                   reqStatementId, statementQuestions, statementUsed>>
    /\ UNCHANGED <<diskVars, courseContents, stateVars>>
    /\ UNCHANGED outsideUp

\* POST /api/analyze with files, up to the loop: statementQuestions is null
\* (-1) without a statement_id, else the questions getQuestions finds.
AnalyzeStart ==
    /\ upRoute = "/api/analyze" /\ upPc = "handling"
    /\ Len(reqFiles) > 0
    /\ statementQuestions' = IF reqStatementId = NoStatement THEN 0 - 1
                             ELSE GetQuestions(reqStatementId)
    /\ upPc' = "looping"
    /\ UNCHANGED <<upRoute, reqFiles, fileIndex, results, resStatus, statementId,
                   served, reqStatementId, statementUsed>>
    /\ UNCHANGED <<diskVars, courseContents, stateVars>>
    /\ UNCHANGED outsideUp

\* The analysis /api/analyze calls for a file.
AnalysisCalled ==
    IF statementQuestions > 0 THEN "analyzeExamWithStatement" ELSE "analyzeExam"

\* POST /api/analyze, one iteration of the loop over req.files: processFile,
\* the analysis, results.push, cleanup(file.path).  A rejection of processFile
\* or of the analysis leaves the loop for the catch block: 500.
AnalyzeFile ==
    /\ upRoute = "/api/analyze" /\ upPc = "looping"
    /\ fileIndex <= Len(reqFiles)
    /\ \E processFile \in Outcomes, analysis \in Outcomes, unlinked \in BOOLEAN :
        IF processFile = "resolved" /\ analysis = "resolved"
        THEN /\ results' = Append(results, [filename |-> reqFiles[fileIndex],
                                            analysis |-> AnalysisCalled])
             /\ uploads' = Cleanup(reqFiles[fileIndex], unlinked)
             /\ unlinkFailed' = (unlinkFailed \/ CleanupFailed(reqFiles[fileIndex], unlinked))
             /\ fileIndex' = fileIndex + 1
             /\ UNCHANGED <<upPc, resStatus>>
        ELSE /\ Respond(500)
             /\ UNCHANGED <<results, uploads, unlinkFailed, fileIndex>>
    /\ UNCHANGED <<fileCount, upRoute, reqFiles, statementId, served,
                   reqStatementId, statementQuestions, statementUsed>>
    /\ UNCHANGED <<courseContents, stateVars>>
    /\ UNCHANGED outsideUp

\* POST /api/analyze after the loop: 200 with the results and
\* statement_used: !!statementId.
AnalyzeRespond ==
    /\ upRoute = "/api/analyze" /\ upPc = "looping"
    /\ fileIndex > Len(reqFiles)
    /\ statementUsed' = (reqStatementId # NoStatement)
    /\ Respond(200)
    /\ UNCHANGED <<upRoute, reqFiles, fileIndex, results, statementId, served,
                   reqStatementId, statementQuestions>>
    /\ UNCHANGED <<diskVars, courseContents, stateVars>>
    /\ UNCHANGED outsideUp

\* POST /api/statement or /api/quiz/upload with no file or more than one: 400.
RejectFileCount ==
    /\ upRoute \in {"/api/statement", "/api/quiz/upload"} /\ upPc = "handling"
    /\ Len(reqFiles) # 1
    /\ Respond(400)
    /\ UNCHANGED <<upRoute, reqFiles, fileIndex, results, statementId, served,
                   reqStatementId, statementQuestions, statementUsed>>
    /\ UNCHANGED <<diskVars, courseContents, stateVars>>
    /\ UNCHANGED outsideUp

\* StatementService.processStatement(file): the record stored under a new id.
ProcessStatement ==
    /\ upRoute = "/api/statement" /\ upPc = "handling"
    /\ Len(reqFiles) = 1
    /\ statementId' = <<idCounter, now + 1>>
    /\ idCounter' = idCounter + 1
    /\ now' = now + 1
    /\ documents' = Append(documents, [id |-> <<idCounter, now + 1>>,
                                       originalPath |-> reqFiles[1],
                                       questions |-> 0,
                                       processed |-> FALSE])
    /\ upPc' = "processFile"
    /\ UNCHANGED <<upRoute, reqFiles, fileIndex, results, resStatus, served,
                   reqStatementId, statementQuestions, statementUsed>>
    /\ UNCHANGED <<diskVars, courseContents, questionCache, activeStatement, stCall>>
    /\ UNCHANGED outsideUp

\* POST /api/quiz/upload with one file: the handler reaches processFile.
QuizUploadStart ==
    /\ upRoute = "/api/quiz/upload" /\ upPc = "handling"
    /\ Len(reqFiles) = 1
    /\ upPc' = "processFile"
    /\ UNCHANGED <<upRoute, reqFiles, fileIndex, results, resStatus, statementId,
                   served, reqStatementId, statementQuestions, statementUsed>>
    /\ UNCHANGED <<diskVars, courseContents, stateVars>>
    /\ UNCHANGED outsideUp

\* await fileProcessor.processFile(file) of /api/statement and
\* /api/quiz/upload: the images, or the catch block: 500.
ConvertFile ==
    /\ upRoute \in {"/api/statement", "/api/quiz/upload"} /\ upPc = "processFile"
    /\ \E processFile \in Outcomes :
        IF processFile = "resolved"
        THEN upPc' = "extract" /\ UNCHANGED resStatus
        ELSE Respond(500)
    /\ UNCHANGED <<upRoute, reqFiles, fileIndex, results, statementId, served,
                   reqStatementId, statementQuestions, statementUsed>>
    /\ UNCHANGED <<diskVars, courseContents, stateVars>>
    /\ UNCHANGED outsideUp

\* StatementService.extractQuestions up to its first await: the statement is
\* looked up; when it is gone the call throws and the route answers 500.
ExtractQuestions ==
    /\ upRoute = "/api/statement" /\ upPc = "extract"
    /\ IF statementId \in StatementIds
       THEN upPc' = "extracting" /\ UNCHANGED resStatus
       ELSE Respond(500)
    /\ UNCHANGED <<upRoute, reqFiles, fileIndex, results, statementId, served,
                   reqStatementId, statementQuestions, statementUsed>>
    /\ UNCHANGED <<diskVars, courseContents, stateVars>>
    /\ UNCHANGED outsideUp

\* extractQuestions after its awaits: the statement object it holds gets the
\* n questions.
Extracted(doc, n) == [doc EXCEPT !.questions = n, !.processed = TRUE]

\* this.questionCache.set(id, questions)
CacheSet(id, n) ==
    {e \in questionCache : e.id # id} \cup {[id |-> id, questions |-> n]}

\* The number of questions an extraction can give; parseQuestionsFromContent
\* gives none when the model text cannot be parsed.
QuestionCounts == {0, 2}

\* extractQuestions after the awaits of extractContent and
\* parseQuestionsFromContent, then cleanup(file.path) and 200; a rejection
\* goes to the catch block: 500.  The statement object is updated whether or
\* not documents still holds it.
QuestionsExtracted ==
    /\ upRoute = "/api/statement" /\ upPc = "extracting"
    /\ \E extractContent \in Outcomes, n \in QuestionCounts, unlinked \in BOOLEAN :
        IF extractContent = "resolved"
        THEN /\ documents' = [i \in 1..Len(documents) |->
                                IF documents[i].id = statementId
                                THEN Extracted(documents[i], n) ELSE documents[i]]
             /\ questionCache' = CacheSet(statementId, n)
             /\ uploads' = Cleanup(reqFiles[1], unlinked)
             /\ unlinkFailed' = (unlinkFailed \/ CleanupFailed(reqFiles[1], unlinked))
             /\ Respond(200)
        ELSE /\ Respond(500)
             /\ UNCHANGED <<documents, questionCache, uploads, unlinkFailed>>
    /\ UNCHANGED <<upRoute, reqFiles, fileIndex, results, statementId, served,
                   reqStatementId, statementQuestions, statementUsed>>
    /\ UNCHANGED <<fileCount, courseContents, idCounter, activeStatement, now, stCall>>
    /\ UNCHANGED outsideUp

\* POST /api/quiz/upload: await aiService.extractContent(images), then
\* storeCourseContent, cleanup(file.path) and 200; a rejection goes to the
\* catch block: 500.
StoreCourse ==
    /\ upRoute = "/api/quiz/upload" /\ upPc = "extract"
    /\ \E extractContent \in Outcomes, unlinked \in BOOLEAN :
        IF extractContent = "resolved"
        THEN /\ courseContents' = courseContents \cup {reqFiles[1]}
             /\ uploads' = Cleanup(reqFiles[1], unlinked)
             /\ unlinkFailed' = (unlinkFailed \/ CleanupFailed(reqFiles[1], unlinked))
             /\ Respond(200)
        ELSE /\ Respond(500)
             /\ UNCHANGED <<courseContents, uploads, unlinkFailed>>
    /\ UNCHANGED <<upRoute, reqFiles, fileIndex, results, statementId, served,
                   reqStatementId, statementQuestions, statementUsed>>
    /\ UNCHANGED <<fileCount, stateVars>>
    /\ UNCHANGED outsideUp

\* The records of documents other than the one of an id.
Without(docs, id) == SelectSeq(docs, LAMBDA d : d.id # id)

\* POST /api/statement/:id/select, StatementService.selectStatement(id): an
\* id that documents does not hold throws.
SelectStatement ==
    /\ \E id \in NamedIds :
        /\ stCall' = [op |-> "select", ok |-> id \in StatementIds]
        /\ activeStatement' = IF id \in StatementIds THEN id ELSE activeStatement
    /\ UNCHANGED <<requestVars, diskVars, courseContents, documents, questionCache,
                   idCounter, now>>
    /\ UNCHANGED outsideUp

RemovedKeepingActive(id, unlinked) ==
    IF CleanupFailed(Statement(id).originalPath, unlinked)
    THEN /\ unlinkFailed' = TRUE
         /\ stCall' = [op |-> "remove", ok |-> FALSE]
         /\ UNCHANGED <<uploads, documents, questionCache, activeStatement>>
    ELSE /\ uploads' = Cleanup(Statement(id).originalPath, unlinked)
         /\ documents' = Without(documents, id)
         /\ questionCache' = {e \in questionCache : e.id # id}
         /\ stCall' = [op |-> "remove", ok |-> TRUE]
         /\ UNCHANGED <<unlinkFailed, activeStatement>>

\* removeStatement(id) for a stored statement: the original file is unlinked
\* if it is still there, then the record and its cache entry go and the
\* active statement is cleared if it was this one.  If fs.unlinkSync throws,
\* the catch block returns false and everything stays.
Removed(id, unlinked) ==
    IF CleanupFailed(Statement(id).originalPath, unlinked)
    THEN /\ unlinkFailed' = TRUE
         /\ stCall' = [op |-> "remove", ok |-> FALSE]
         /\ UNCHANGED <<uploads, documents, questionCache, activeStatement>>
    ELSE /\ uploads' = Cleanup(Statement(id).originalPath, unlinked)
         /\ documents' = Without(documents, id)
         /\ questionCache' = {e \in questionCache : e.id # id}
         /\ activeStatement' = IF activeStatement = id THEN NoStatement
                               ELSE activeStatement
         /\ stCall' = [op |-> "remove", ok |-> TRUE]
         /\ UNCHANGED unlinkFailed

\* DELETE /api/statement/:id, StatementService.removeStatement(id): false for
\* an id that documents does not hold.
RemoveStatement ==
    /\ \E id \in NamedIds, unlinked \in BOOLEAN :
        IF id \in StatementIds
        THEN Removed(id, unlinked)
        ELSE /\ stCall' = [op |-> "remove", ok |-> FALSE]
             /\ UNCHANGED <<uploads, documents, questionCache, activeStatement,
                            unlinkFailed>>
    /\ UNCHANGED <<requestVars, fileCount, courseContents, idCounter, now>>
    /\ UNCHANGED outsideUp

\* StatementService.cleanup(): every original file still there is unlinked,
\* a failure is only logged (failed: the files whose unlink throws); then
\* the maps are cleared and the counter starts again.
CleanupStatements ==
    /\ documents # <<>>
    /\ \E failed \in SUBSET ({documents[i].originalPath : i \in 1..Len(documents)}
                                \cap uploads) :
        /\ uploads' = (uploads \ {documents[i].originalPath : i \in 1..Len(documents)})
                          \cup failed
        /\ unlinkFailed' = (unlinkFailed \/ failed # {})
    /\ documents' = <<>>
    /\ questionCache' = {}
    /\ activeStatement' = NoStatement
    /\ idCounter' = 1
    /\ stCall' = [op |-> "cleanup", ok |-> TRUE]
    /\ UNCHANGED <<requestVars, fileCount, courseContents, now>>
    /\ UNCHANGED outsideUp

UpNext ==
    \/ Upload
    \/ AnalyzeNoFiles
    \/ AnalyzeStart
    \/ AnalyzeFile
    \/ AnalyzeRespond
    \/ RejectFileCount
    \/ ProcessStatement
    \/ QuizUploadStart
    \/ ConvertFile
    \/ ExtractQuestions
    \/ QuestionsExtracted
    \/ StoreCourse
    \/ SelectStatement
    \/ RemoveStatement

\* The routes, and the calls of StatementService.cleanup.
StatementNext ==
    \/ Upload
    \/ AnalyzeNoFiles
    \/ AnalyzeStart
    \/ AnalyzeFile
    \/ AnalyzeRespond
    \/ RejectFileCount
    \/ ProcessStatement
    \/ QuizUploadStart
    \/ ConvertFile
    \/ ExtractQuestions
    \/ QuestionsExtracted
    \/ StoreCourse
    \/ SelectStatement
    \/ RemoveStatement
    \/ CleanupStatements

(***************************************************************************)
(* Number arithmetic of QuizService.storeResult                            *)
(*                                                                         *)
(* correctCount / quiz.questions.length and the product with 100 are IEEE  *)
(* 754 binary64 operations, each rounded to nearest, ties to even.  A      *)
(* positive Number is [m, e]: m the 53 bits of its significand, first bit  *)
(* 1, and e the power of two of that first bit.                            *)
(***************************************************************************)
Precision == 53

Zeros(n) == [i \in 1..n |-> 0]

\* The least k with c * 2^k >= t, for 0 < c <= t.
RECURSIVE ShiftTo(_, _)
ShiftTo(c, t) == IF c >= t THEN 0 ELSE 1 + ShiftTo(2 * c, t)

\* 2^i modulo t, for i up to 60: by halves, each power within 32 bits.
PowerMod(i, t) == (((2 ^ (i \div 2)) % t) * ((2 ^ (i - (i \div 2))) % t)) % t

\* The remainder of the long division of r by t, r < t, after i quotient
\* bits: r * 2^i modulo t.
RemainderAfter(r, t, i) == (r * PowerMod(i, t)) % t

\* Long division: bits followed by the next n quotient bits of r / t, r < t,
\* and the remainder.  Quotient bit i is 1 iff twice the remainder before
\* it reaches t.
DivBits(r, t, n, bits) ==
    [bits |-> bits \o [i \in 1..n |->
                          IF 2 * RemainderAfter(r, t, i - 1) >= t THEN 1 ELSE 0],
     rem |-> RemainderAfter(r, t, n)]

\* The n bits of v < 2^n, first bit first.
BitsOf(v, n) == [i \in 1..n |-> (v \div (2 ^ (n - i))) % 2]

\* The value of at most 8 bits, first bit first.
ByteValue(bits) == CHOOSE v \in 0..(2 ^ Len(bits) - 1) : BitsOf(v, Len(bits)) = bits

\* The value of at most 16 bits, first bit first.
BitsValue(bits) ==
    IF Len(bits) <= 8 THEN ByteValue(bits)
    ELSE 256 * ByteValue(SubSeq(bits, 1, Len(bits) - 8))
             + ByteValue(SubSeq(bits, Len(bits) - 7, Len(bits)))

\* bits + 1: the last 0 becomes 1 and the ones after it 0; one bit longer
\* when every bit is 1.
Increment(bits) ==
    LET zeros == {i \in 1..Len(bits) : bits[i] = 0}
        last == CHOOSE i \in zeros : \A j \in zeros : j <= i
    IN  IF zeros = {} THEN <<1>> \o Zeros(Len(bits))
        ELSE [i \in 1..Len(bits) |-> IF i < last THEN bits[i] ELSE IF i = last THEN 1 ELSE 0]

\* bits from its first 1 on.
StripZeros(bits) ==
    LET ones == {i \in 1..Len(bits) : bits[i] = 1}
        first == CHOOSE i \in ones : \A j \in ones : i <= j
    IN  IF ones = {} THEN <<>> ELSE SubSeq(bits, first, Len(bits))

\* Round to nearest, ties to even: the integer bits (first bit 1, its power
\* of two e) followed by what is beyond the precision: "below", "half" or
\* "above" half a unit in the last place.
RoundBits(bits, e, beyond) ==
    IF beyond = "above" \/ (beyond = "half" /\ bits[Len(bits)] = 1)
    THEN IF Len(Increment(bits)) > Len(bits)
         THEN [m |-> SubSeq(Increment(bits), 1, Len(bits)), e |-> e + 1]
         ELSE [m |-> Increment(bits), e |-> e]
    ELSE [m |-> bits, e |-> e]

\* The exact bits of a product cut to the precision, and rounded.
RoundExact(bits, e) ==
    LET cut == SubSeq(bits, Precision + 1, Len(bits))
        beyond == IF cut = <<>> \/ cut[1] = 0 THEN "below"
                  ELSE IF Tail(cut) = Zeros(Len(cut) - 1) THEN "half"
                  ELSE "above"
    IN  RoundBits(SubSeq(bits, 1, Precision), e, beyond)

\* correctCount / length for 0 < correctCount <= length.
Divide(c, t) ==
    LET k == ShiftTo(c, t)
        q == DivBits(c * (2 ^ k) - t, t, Precision - 1, <<1>>)
        beyond == IF 2 * q.rem > t THEN "above"
                  ELSE IF 2 * q.rem = t THEN "half" ELSE "below"
    IN  RoundBits(q.bits, 0 - k, beyond)

\* The 60 bits of m * 100 for the 53 bits m, by parts of 16 bits from the
\* last bit on.
ProductBits(m) ==
    LET p0 == 100 * BitsValue(SubSeq(m, 38, 53))
        p1 == 100 * BitsValue(SubSeq(m, 22, 37)) + p0 \div 65536
        p2 == 100 * BitsValue(SubSeq(m, 6, 21)) + p1 \div 65536
        p3 == 100 * BitsValue(SubSeq(m, 1, 5)) + p2 \div 65536
    IN  BitsOf(p3, 12) \o BitsOf(p2 % 65536, 16) \o BitsOf(p1 % 65536, 16)
            \o BitsOf(p0 % 65536, 16)

\* The product bits (first bit 1) of x * 100, rounded.
RoundProduct(x, bits) == RoundExact(bits, x.e + (Len(bits) - Precision))

\* x * 100 for a positive Number x.
Times100(x) == RoundProduct(x, StripZeros(ProductBits(x.m)))

\* Math.round(x) for a positive Number x below 2^52: the nearest integer,
\* a tie going up.
MathRound(x) ==
    IF x.e < 0 - 1 THEN 0
    ELSE BitsValue(SubSeq(x.m, 1, x.e + 1)) + x.m[x.e + 2]

\* The Number values of a percentage: NaN, or an integer.
NaN == [isNaN |-> TRUE, n |-> 0]

Integer(k) == [isNaN |-> FALSE, n |-> k]

\* Math.round((correctCount / quiz.questions.length) * 100); 0 / 0 is NaN.
Percentage(correctCount, length) ==
    IF length = 0 THEN NaN
    ELSE IF correctCount = 0 THEN Integer(0)
    ELSE Integer(MathRound(Times100(Divide(correctCount, length))))

(***************************************************************************)
(* QuizService (quizzes, results) and the routes /api/quiz/generate and    *)
(* /api/quiz/submit                                                        *)
(*                                                                         *)
(* generateId gives a new id each time: the id of a quiz is its position   *)
(* in quizzes.  A course is known by the path of its uploaded file.        *)
(***************************************************************************)
\* A property that is not there.
Undefined == [t |-> "undefined", n |-> 0, s |-> <<>>, items |-> <<>>]

\* String(n) for an integer n.
RECURSIVE DecimalChars(_)
DecimalChars(n) ==
    IF n < 0 THEN <<"-">> \o DecimalChars(0 - n)
    ELSE IF n < 10 THEN <<Digits[n + 1]>>
    ELSE DecimalChars(n \div 10) \o <<Digits[(n % 10) + 1]>>

\* String(v), also the property key v stands for in answers[v].
JsString(v) ==
    CASE v.t = "str" -> v.s
      [] v.t = "num" -> DecimalChars(v.n)
      [] v.t = "bool" -> IF v.n = 1 THEN <<"t", "r", "u", "e">>
                         ELSE <<"f", "a", "l", "s", "e">>
      [] v.t = "null" -> <<"n", "u", "l", "l">>
      [] v.t = "undefined" -> <<"u", "n", "d", "e", "f", "i", "n", "e", "d">>
      [] OTHER -> <<"[", "o", "b", "j", "e", "c", "t", " ", "O", "b", "j", "e", "c",
                    "t", "]">>

\* String(v).toLowerCase().trim()
Normalized(v) == Trim(toLowerCase(JsString(v)))

\* QuizService.checkAnswer(question, userAnswer)
CheckAnswer(question, userAnswer) ==
    IF userAnswer.t = "undefined" \/ IsFalsy(userAnswer) THEN FALSE
    ELSE Normalized(userAnswer) = Normalized(GetKey(question, K_correctAnswer))

\* answers[question.id]
UserAnswer(answers, question) ==
    IF HasKey(answers, JsString(GetKey(question, K_id)))
    THEN GetKey(answers, JsString(GetKey(question, K_id)))
    ELSE Undefined

\* storeResult: the entry of detailedResults for a question.
DetailedResult(question, userAnswer) ==
    [questionId |-> GetKey(question, K_id),
     question |-> GetKey(question, K_question),
     type |-> GetKey(question, K_type),
     userAnswer |-> userAnswer,
     correctAnswer |-> GetKey(question, K_correctAnswer),
     isCorrect |-> CheckAnswer(question, userAnswer),
     options |-> GetKey(question, K_options)]

\* storeResult: the result made of detailedResults.
ScoredResult(quizId, answers, detailedResults, correctCount) ==
    [quizId |-> quizId,
     score |-> correctCount,
     totalQuestions |-> Len(detailedResults),
     percentage |-> Percentage(correctCount, Len(detailedResults)),
     answers |-> answers,
     detailedResults |-> detailedResults,
     correctCount |-> correctCount,
     incorrectCount |-> Len(detailedResults) - correctCount]

CountCorrect(detailedResults) ==
    Cardinality({i \in 1..Len(detailedResults) : detailedResults[i].isCorrect})

DetailedResults(questions, answers) ==
    [i \in 1..Len(questions) |->
        DetailedResult(questions[i], UserAnswer(answers, questions[i]))]

Scored(quizId, answers, detailedResults) ==
    ScoredResult(quizId, answers, detailedResults, CountCorrect(detailedResults))

\* QuizService.storeResult(quizId, answers) for a stored quiz: the result.
QuizResult(quizId, answers) ==
    Scored(quizId, answers, DetailedResults(quizzes[quizId].questions.items, answers))

ClientQuestionWithAnswer(q) ==
    JObj(<<JEntry(K_id, GetKey(q, K_id)),
           JEntry(K_type, GetKey(q, K_type)),
           JEntry(K_question, GetKey(q, K_question)),
           JEntry(K_options, GetKey(q, K_options)),
           JEntry(K_correctAnswer, GetKey(q, K_correctAnswer))>>)

\* The question as /api/quiz/generate sends it to the client.
ClientQuestion(q) ==
    JObj(<<JEntry(K_id, GetKey(q, K_id)),
           JEntry(K_type, GetKey(q, K_type)),
           JEntry(K_question, GetKey(q, K_question)),
           JEntry(K_options, GetKey(q, K_options))>>)

NoQuiz == [id |-> 0, courseId |-> 0, questions |-> <<>>]

NoResult == [quizId |-> 0]

\* res.status(status).json(..) of a quiz route.
QuizAnswer(status, error, quiz, stored) ==
    [status |-> status, error |-> error, quiz |-> quiz, result |-> stored]

\* res.json of /api/quiz/generate for the stored quiz.
GenerateResponse(quizData) ==
    QuizAnswer(200, "", [id |-> quizData.id, courseId |-> quizData.courseId,
                         questions |-> [i \in 1..Len(quizData.questions.items) |->
                                           ClientQuestion(quizData.questions.items[i])]],
               NoResult)

\* The number of questions /api/quiz/generate asks generateQuiz for.
NumQuestions == 10

QuizSize == 40

MaxQuizzes == 2

MaxSubmissions == 1

True == <<"t", "r", "u", "e">>

False == <<"f", "a", "l", "s", "e">>

\* A validated true/false question as generateQuiz returns it.
TrueFalseQuestion(id, correctAnswer) ==
    JObj(<<JEntry(K_id, JNum(id)),
           JEntry(K_type, JStr(<<"t", "r", "u", "e", "_", "f", "a", "l", "s", "e">>)),
           JEntry(K_question, JStr(<<"Q">>)),
           JEntry(K_options, JNull),
           JEntry(K_correctAnswer, JStr(correctAnswer))>>)

\* n true/false questions with the ids 1..n and one correct answer.
TrueFalseQuiz(n, correctAnswer) ==
    JArr([i \in 1..n |-> TrueFalseQuestion(i, correctAnswer)])

\* Model texts with a questions array: no question, one, two, and one that
\* does not validate.
SampleQuizTexts ==
    {QuestionsOpen \o l \o <<"]", "}">> :
        l \in {<<>>, QuestionMc, QuestionMc \o <<",">> \o QuestionOpen, QuestionNoAnswer}}

\* What generateQuiz settles with: the outcomes of the sample texts, and the
\* quizzes of QuizSize true/false questions.
QuizOutcomes ==
    {RecoverQuiz(quizText).result : quizText \in SampleQuizTexts}
        \cup {AiReturned(TrueFalseQuiz(QuizSize, a)) : a \in {True, False}}

\* The answers object with right under the keys 1..c and wrong under the
\* keys c+1..QuizSize.
Sheet(c, right, wrong) ==
    JObj([i \in 1..QuizSize |->
             JEntry(DecimalChars(i), IF i <= c THEN right ELSE wrong)])

\* req.body.answers: objects, and what is not an object.
AnswerSheets ==
    {Sheet(c, JStr(True), JStr(False)) : c \in {23, QuizSize}}
        \cup {JObj(<<JEntry(<<"1">>, JStr(<<" ", "A", " ">>)), JEntry(<<"7">>, JStr(<<"b">>))>>),
              JObj(<<JEntry(<<"1">>, JBool(FALSE))>>),
              JNull}

\* No quiz stored, no result, no request answered.
QuizIdle ==
    /\ quizzes = <<>>
    /\ quizResults = <<>>
    /\ quizResponse = QuizAnswer(0, "", NoQuiz, NoResult)

\* storeQuiz(quizId, courseId, questions) and the answer of the route.
StoreQuiz(quizData) ==
    /\ quizzes' = Append(quizzes, quizData)
    /\ quizResults' = Append(quizResults, <<>>)
    /\ quizResponse' = GenerateResponse(quizData)

\* POST /api/quiz/generate after the course was found: generateQuiz settled
\* with outcome.
GenerateSettled(courseId, outcome) ==
    IF outcome.status = "returned"
    THEN StoreQuiz([id |-> Len(quizzes) + 1, courseId |-> courseId,
                    questions |-> outcome.value])
    ELSE /\ quizResponse' = QuizAnswer(500, outcome.error, NoQuiz, NoResult)
         /\ UNCHANGED <<quizzes, quizResults>>

\* POST /api/quiz/generate.  courseId 0 stands for a body without courseId.
QuizGenerate ==
    /\ Len(quizzes) < MaxQuizzes
    /\ \E courseId \in 0..(fileCount + 1), outcome \in QuizOutcomes :
        IF courseId = 0
        THEN /\ quizResponse' = QuizAnswer(400, "Course ID is required", NoQuiz, NoResult)
             /\ UNCHANGED <<quizzes, quizResults>>
        ELSE IF courseId \notin courseContents
        THEN /\ quizResponse' = QuizAnswer(404, "Course not found", NoQuiz, NoResult)
             /\ UNCHANGED <<quizzes, quizResults>>
        ELSE GenerateSettled(courseId, outcome)
    /\ UNCHANGED outsideQuiz

\* The results stored so far, over all quizzes.
RECURSIVE StoredResults(_)
StoredResults(i) == IF i = 0 THEN 0 ELSE Len(quizResults[i]) + StoredResults(i - 1)

\* storeResult for a stored quiz, and the answer of the route.
StoreResult(stored) ==
    /\ quizResults' = [quizResults EXCEPT ![stored.quizId] = Append(@, stored)]
    /\ quizResponse' = QuizAnswer(200, "", NoQuiz, stored)

\* POST /api/quiz/submit.  quizId 0 stands for a body without quizId.
QuizSubmit ==
    /\ StoredResults(Len(quizResults)) < MaxSubmissions
    /\ \E quizId \in 0..(Len(quizzes) + 1), answers \in AnswerSheets :
        IF quizId = 0
        THEN /\ quizResponse' = QuizAnswer(400, "Quiz ID is required", NoQuiz, NoResult)
             /\ UNCHANGED quizResults
        ELSE IF answers.t # "obj"
        THEN /\ quizResponse' = QuizAnswer(400, "Answers are required", NoQuiz, NoResult)
             /\ UNCHANGED quizResults
        ELSE IF quizId > Len(quizzes)
        THEN /\ quizResponse' = QuizAnswer(500, "Quiz not found", NoQuiz, NoResult)
             /\ UNCHANGED quizResults
        ELSE StoreResult(QuizResult(quizId, answers))
    /\ UNCHANGED quizzes
    /\ UNCHANGED outsideQuiz

QuizNext ==
    \/ QuizGenerate
    \/ QuizSubmit

\* The server after one course was uploaded through /api/quiz/upload.
CourseUploaded ==
    /\ uploads = {}
    /\ fileCount = 1
    /\ upRoute = "/api/quiz/upload"
    /\ upPc = "responded"
    /\ reqFiles = <<1>>
    /\ fileIndex = 1
    /\ results = <<>>
    /\ resStatus = 200
    /\ statementId = NoStatement
    /\ documents = <<>>
    /\ questionCache = {}
    /\ idCounter = 1
    /\ courseContents = {1}
    /\ served = 1
    /\ unlinkFailed = FALSE
    /\ reqStatementId = NoStatement
    /\ statementQuestions = 0 - 1
    /\ statementUsed = FALSE
    /\ activeStatement = NoStatement
    /\ now = 0
    /\ stCall = NoCall

(***************************************************************************)
(* Specifications: one call of processFile; one call of AIService; the     *)
(* upload requests of a server run                                         *)
(***************************************************************************)
SpecDocInit == DocInit /\ RecIdle /\ UpIdle /\ QuizIdle

SpecDoc == SpecDocInit /\ [][DocNext]_vars

SpecRecoverInit == DocIdle /\ RecIdle /\ UpIdle /\ QuizIdle

SpecRecover == SpecRecoverInit /\ [][RecNext]_vars

SpecUploadInit == DocIdle /\ RecIdle /\ UpIdle /\ QuizIdle

SpecUpload == SpecUploadInit /\ [][UpNext]_vars

SpecStatementInit == DocIdle /\ RecIdle /\ UpIdle /\ QuizIdle

SpecStatement == SpecStatementInit /\ [][StatementNext]_vars

SpecQuizInit == DocIdle /\ RecIdle /\ CourseUploaded /\ QuizIdle

SpecQuiz == SpecQuizInit /\ [][QuizNext]_vars

(***************************************************************************)
(* Document normalization: properties                                      *)
(***************************************************************************)
\* The kind each considered upload declares by its name, written out by hand.
PdfNames == { <<"a", ".", "p", "d", "f">>, <<"A", ".", "P", "D", "F">>,
              <<"u", "/", "b", ".", "p", "d", "f">> }

ImageNames == { <<"b", ".", "j", "p", "g">>, <<"c", ".", "j", "p", "e", "g">>,
                <<"d", ".", "P", "n", "g">> }

OffendingKind(name) ==
    CASE name = <<"e", ".", "g", "i", "f">> -> <<".", "g", "i", "f">>
      [] name = <<"f", ".", "p", "d", "f", ".", "t", "x", "t">> -> <<".", "t", "x", "t">>
      [] name = <<"g", ".">> -> <<".">>
      [] OTHER -> <<>>

IsPdf == file.originalname \in PdfNames

IsImage == file.originalname \in ImageNames

\* Tier 1 rasterized pages 1..k and failed at page k+1.
RasterizedThenFailed(k) ==
    /\ Len(attempts) = k + 1
    /\ \A i \in 1..k : attempts[i] = [page |-> i, outcome |-> "buffer"]
    /\ attempts[k + 1].page = k + 1
    /\ attempts[k + 1].outcome # "buffer"

\* C1: when tier 1 rasterizes pages 1..k (1 <= k < 20) and fails at page k+1,
\* processPDF returns exactly the k rasterized pages in page order and tier 2
\* is never invoked.
C1_PartialRasterization ==
    \A k \in 1..(PageLimit - 1) :
        (pc = "done" /\ RasterizedThenFailed(k)) =>
            /\ result.status = "ok"
            /\ Len(result.pages) = k
            /\ \A i \in 1..k : result.pages[i] = RasterPage(i)
            /\ tier2 = "notInvoked"

C1_Witness ==
    /\ pc = "done"
    /\ RasterizedThenFailed(3)
    /\ Len(result.pages) = 3

CeilDiv(a, b) == (a + b - 1) \div b

\* C2: when tier 1 yields nothing and tier 2 returns, the result has
\* max(1, ceil(textLength / 2000)) pages and page i is rendered from the i-th
\* consecutive 2000-character chunk of the extracted text.
C2_TextFallbackPages ==
    (pc = "done" /\ tier2 = "returned") =>
        LET n == Len(pdfText)
            count == Max(1, CeilDiv(n, 2000))
        IN  /\ result.status = "ok"
            /\ Len(result.pages) = count
            /\ \A i \in 1..count :
                  /\ result.pages[i].kind = "text"
                  /\ result.pages[i].pageNum = i
                  /\ result.pages[i].totalPages = count
                  /\ n > 0 => result.pages[i].src =
                        SubSeq(pdfText, 2000 * (i - 1) + 1, Min(2000 * i, n))

C2_Witness ==
    /\ pc = "done"
    /\ ~pdf2pic
    /\ tier2 = "returned"
    /\ Len(pdfText) = 4500
    /\ Len(result.pages) = 3
    /\ Len(result.pages[3].src) = 500

\* C3: processFile never returns more than 20 pages, whichever tier made them.
C3_PageCeiling ==
    result.status = "ok" => Len(result.pages) <= 20

\* C4: processPDF fails only when tier 2 fails: a tier-1 failure (pdf2pic not
\* loaded, fromPath throws, no page rasterized) is followed by a tier-2
\* attempt and never reaches the caller; a tier-2 failure is reported as
\* 'Failed to process PDF file' with no pages.
C4_OnlyTier2Fails ==
    (pc = "done" /\ IsPdf) =>
        /\ result.status = "error" <=> tier2 = "threw"
        /\ result.status = "error" =>
              result.error = "Failed to process PDF file" /\ result.pages = <<>>
        /\ (~pdf2pic \/ images = <<>>) => tier2 # "notInvoked"

C4_Witness ==
    /\ pc = "done"
    /\ pdf2pic
    /\ Len(attempts) = 1
    /\ attempts[1].outcome = "convertThrows"
    /\ tier2 = "threw"
    /\ result.status = "error"

\* C5: the tier-1 loop attempts pages 1, 2, 3, ... in this order, each only
\* after the one before succeeded; the first failed attempt ends the loop
\* (no later page is attempted) and does not by itself reject the call.
C5_SequentialAttempts ==
    /\ \A i \in 1..Len(attempts) : attempts[i].page = i
    /\ \A i \in 1..(Len(attempts) - 1) : attempts[i].outcome = "buffer"
    /\ Len(attempts) <= PageLimit
    /\ (attempts # <<>> /\ attempts[Len(attempts)].outcome # "buffer") =>
          /\ ~hasMorePages
          /\ pc \in {"loop", "processPDFWithTextExtraction", "done"}
          /\ result.status = "error" => tier2 = "threw"

C5_Witness ==
    /\ Len(attempts) = 4
    /\ attempts[4].outcome = "noBuffer"
    /\ pc = "done"
    /\ result.status = "ok"

\* C6: processFile dispatches on the declared kind only: a pdf goes to the PDF
\* paths, an image gives exactly one page when it can be encoded, and any
\* other kind is rejected with an error naming it and no page.
C6_DispatchOnKind ==
    /\ pc \in {"processPDFWithPdf2Pic", "loop", "processPDFWithTextExtraction"} => IsPdf
    /\ pc = "processImage" => IsImage
    /\ (pc = "done" /\ IsPdf) =>
          \A i \in 1..Len(result.pages) : result.pages[i].kind \in {"raster", "text"}
    /\ (pc = "done" /\ IsImage) =>
          /\ result.status = "ok" => result.pages = <<ImagePage>>
          /\ result.status = "error" => result.error = "Failed to process image file"
          /\ attempts = <<>> /\ tier2 = "notInvoked"
    /\ (pc = "done" /\ ~IsPdf /\ ~IsImage) =>
          /\ result = Rejected("Unsupported file type", OffendingKind(file.originalname))
          /\ attempts = <<>> /\ tier2 = "notInvoked"

C6_Witness ==
    /\ pc = "done"
    /\ file.originalname = <<"f", ".", "p", "d", "f", ".", "t", "x", "t">>
    /\ result.error = "Unsupported file type"
    /\ result.detail = <<".", "t", "x", "t">>

\* C29: every file accepted by the upload filter (MIME type pdf, jpeg, jpg
\* or png) is dispatched by processFile to the PDF or image path: no accepted
\* file is rejected later as an unsupported file type, whatever the
\* extension of its original name.
C29_AcceptedFileDispatched ==
    (fileFilter(file) /\ pc # "processFile") =>
        ~(result.status = "error" /\ result.error = "Unsupported file type")

(***************************************************************************)
(* Response recovery: properties                                           *)
(***************************************************************************)
IsContent == aiPc = "done" /\ aiReply.kind = "content"

Terminal == aiTrace[Len(aiTrace)]

\* C7: for every string the model returns (the empty string, white space,
\* JSON of the wrong shape and truncated JSON included) the recovery of
\* analyzeContent and of analyzeContentWithStatement does not throw and
\* returns a record.
C7_RecoverNeverThrows ==
    IsContent => aiResult.status = "returned" /\ aiResult.value.t = "obj"

\* The properties a record of the expected shape has.
BasicShape == {K_score, K_subject, K_errors, K_corrections, K_summary}

StatementShape == {K_overall_score, K_subject, K_statement_used,
                   K_question_analysis, K_summary, K_recommendations}

MatchesShape(v, keys) == v.t = "obj" /\ \A k \in keys : HasKey(v, k)

MatchesExpectedShape(call, text) ==
    LET p == JSONparse(text)
    IN  /\ p.ok
        /\ IF call = "analyzeContent" THEN MatchesShape(p.val, BasicShape)
           ELSE /\ MatchesShape(p.val, StatementShape)
                /\ GetKey(p.val, K_question_analysis).t = "arr"

\* C8: a model text that is valid JSON of the expected shape is recovered as
\* a PARSED record equal to the value the text parses to.
C8_RoundTrip ==
    (IsContent /\ MatchesExpectedShape(aiCall, aiReply.text)) =>
        /\ aiResult = AiReturned(JSONparse(aiReply.text).val)
        /\ Terminal = "PARSED"

C8_Witness ==
    /\ IsContent
    /\ aiCall = "analyzeContentWithStatement"
    /\ aiReply.text = <<" ">> \o DocStatement \o <<"\n">>
    /\ aiResult.status = "returned"
    /\ Len(GetKey(aiResult.value, K_question_analysis).items) = 1
    /\ HasKey(aiResult.value, K_recommendations)

\* C9: on a text without a code fence, cleaning (trim, fence stripping,
\* truncation repair) is idempotent: cleaning the cleaned text changes nothing.
C9_CleanIdempotent ==
    (IsContent /\ aiCall = "analyzeContentWithStatement"
        /\ aiResult.status = "returned" /\ ~Includes(aiReply.text, Fence)) =>
        Clean(aiParsedText) = aiParsedText

C9_Witness ==
    /\ IsContent
    /\ aiCall = "analyzeContentWithStatement"
    /\ aiReply.text = TruncatedSummary
    /\ aiParsedText = TruncatedSummary \o RecommendationsPatch
    /\ "TRUNCATION_REPAIRED" \in {aiTrace[i] : i \in 1..Len(aiTrace)}

\* A trimmed text wrapped in a fence with the json tag, or in a bare fence,
\* and the text between its two fences.
JsonFenced(c) ==
    /\ Len(c) >= 2 * Len(Fence) + Len(JsonTag)
    /\ StartsWith(c, Fence \o JsonTag)
    /\ EndsWith(c, Fence)

BareFenced(c) ==
    /\ Len(c) >= 2 * Len(Fence)
    /\ StartsWith(c, Fence)
    /\ ~StartsWith(c, Fence \o JsonTag)
    /\ EndsWith(c, Fence)

BetweenFences(c) ==
    IF JsonFenced(c)
    THEN SubSeq(c, Len(Fence) + Len(JsonTag) + 1, Len(c) - Len(Fence))
    ELSE SubSeq(c, Len(Fence) + 1, Len(c) - Len(Fence))

Cleaned == IsContent /\ aiCall = "analyzeContentWithStatement" /\ aiResult.status = "returned"

\* C10 as stated: the fence stripping leaves exactly the text between the
\* fences of a wrapped text, and does not shorten a text without a fence.
C10_FenceStripExact ==
    Cleaned =>
        LET c == Trim(aiReply.text)
        IN  /\ (JsonFenced(c) \/ BareFenced(c)) => aiStripped = BetweenFences(c)
            /\ ~Includes(aiReply.text, Fence) => Len(aiStripped) >= Len(aiReply.text)

\* C10 amended: the fence stripping leaves the text between the fences of a
\* wrapped text without the white space at its ends, and takes nothing but
\* the white space at its ends from a text without a fence.
C10_FenceStripTrimmed ==
    Cleaned =>
        LET c == Trim(aiReply.text)
        IN  /\ (JsonFenced(c) \/ BareFenced(c)) => aiStripped = Trim(BetweenFences(c))
            /\ ~Includes(aiReply.text, Fence) => aiStripped = c

C10_Witness ==
    /\ Cleaned
    /\ aiReply.text = <<"\n">> \o Fence \o JsonTag \o <<" ", "\n">> \o DocStatement
                        \o <<" ", "\n">> \o Fence \o <<"\n">>
    /\ aiStripped = DocStatement
    /\ Terminal = "PARSED"

\* C11: every recovery path cleans before it parses: the text made of the
\* object with score 90 inside a json fence is recovered as a PARSED record
\* with score 90, by analyzeContent as by analyzeContentWithStatement.
C11_FencedJsonParsed ==
    (IsContent /\ aiReply.text = FencedScore90) =>
        /\ aiResult.status = "returned"
        /\ Terminal = "PARSED"
        /\ aiResult.value.t = "obj"
        /\ HasKey(aiResult.value, K_score)
        /\ GetKey(aiResult.value, K_score) = JNum(90)

GoodWork == <<"G", "o", "o", "d", " ", "w", "o", "r", "k">>

RequiredCollection(call) ==
    IF call = "analyzeContentWithStatement" THEN K_question_analysis ELSE K_questions

\* The text handed to JSON.parse parsed to an object without the required
\* collection field.
CollectionAbsent ==
    /\ IsContent
    /\ aiReply.text # <<>>
    /\ aiCall \in {"analyzeContentWithStatement", "generateQuiz", "parseQuestionsFromContent"}
    /\ JSONparse(aiParsedText).ok
    /\ JSONparse(aiParsedText).val.t = "obj"
    /\ ~HasKey(JSONparse(aiParsedText).val, RequiredCollection(aiCall))

\* C13: when the model text parses but the required collection field is
\* absent (question_analysis in the statement-based analysis, questions in
\* question extraction and in quiz generation), the call does not fail and
\* returns the empty collection in its place: the parsed record with the
\* field set to [], or the empty list of questions.
C13_AbsentCollectionDefaulted ==
    CollectionAbsent =>
        /\ aiResult.status = "returned"
        /\ aiResult.value =
              IF aiCall = "analyzeContentWithStatement"
              THEN SetKey(JSONparse(aiParsedText).val, K_question_analysis, JArr(<<>>))
              ELSE JArr(<<>>)

\* A run of one of the two analyses that ended DEGRADED.
Degraded ==
    /\ IsContent
    /\ aiCall \in {"analyzeContent", "analyzeContentWithStatement"}
    /\ aiResult.status = "returned"
    /\ Terminal = "DEGRADED"

\* The fields every DEGRADED record has according to the claim, but for the
\* note: a zero score, subject "Unknown", every list field empty, and the
\* model text as received in raw_response.
NeutralFields(v) ==
    /\ v.t = "obj"
    /\ \E k \in {K_score, K_overall_score} : HasKey(v, k) /\ GetKey(v, k) = JNum(0)
    /\ HasKey(v, K_subject)
    /\ GetKey(v, K_subject) = JStr(<<"U", "n", "k", "n", "o", "w", "n">>)
    /\ \A i \in 1..Len(v.items) :
          v.items[i].items[1].t = "arr" => v.items[i].items[1].items = <<>>
    /\ \E i \in 1..Len(v.items) : v.items[i].items[1].t = "arr"
    /\ HasKey(v, K_raw_response)
    /\ GetKey(v, K_raw_response) = JStr(aiReply.text)

\* The note of a degraded record.
CouldNotCompleteNote ==
    <<"A", "n", "a", "l", "y", "s", "i", "s", " ", "c", "o", "m", "p", "l",
      "e", "t", "e", "d", " ", "b", "u", "t", " ", "f", "o", "r", "m", "a",
      "t", "t", "i", "n", "g", " ", "i", "s", "s", "u", "e", "s", " ", "o",
      "c", "c", "u", "r", "r", "e", "d", ".", " ", "P", "l", "e", "a", "s",
      "e", " ", "r", "e", "v", "i", "e", "w", " ", "m", "a", "n", "u", "a",
      "l", "l", "y", ".">>

RecoveryPaths ==
    { <<"RECEIVED", "CLEANED", "PARSED">>,
      <<"RECEIVED", "CLEANED", "DEGRADED">>,
      <<"RECEIVED", "CLEANED", "TRUNCATION_REPAIRED", "PARSED">>,
      <<"RECEIVED", "CLEANED", "TRUNCATION_REPAIRED", "DEGRADED">> }

\* A finished recovery run of the statement-based analysis.
StatementRun ==
    IsContent /\ aiReply.text # <<>> /\ aiCall = "analyzeContentWithStatement"

NoResponseReplies ==
    {[kind |-> "networkError", text |-> <<>>], [kind |-> "malformed", text |-> <<>>]}

\* The call threw for an envelope whose content is empty.
ThrewOnEmptyContent ==
    /\ aiPc = "done"
    /\ aiResult.status = "threw"
    /\ aiReply = [kind |-> "content", text |-> <<>>]

\* C16: a failure of the capability call reaches the caller as an error that
\* tells 'no response' (network error, missing or malformed envelope) from
\* 'empty content': the error thrown for an empty content is never the error
\* the same method throws for a reply that is no response.
C16_ErrorsDistinguishable ==
    ThrewOnEmptyContent =>
        \A reply \in NoResponseReplies :
            aiResult.error # CallFailure(aiCall, EnvelopeError(aiCall, reply))

\* A call that received a non-empty model text, so that only the parse or
\* the validation of the shape can fail.
ModelTextReceived ==
    /\ IsContent
    /\ aiReply.text # <<>>
    /\ aiCall \in {"analyzeContent", "analyzeContentWithStatement", "generateQuiz",
                   "parseQuestionsFromContent"}

\* C17: a parse failure or a shape failure of the model output is never
\* thrown to the caller: in quiz generation and in question extraction too,
\* a text that does not parse, has no questions array, or holds a question
\* without a required field gives a result, not an exception.
C17_ParseFailureNotThrown == ModelTextReceived => aiResult.status = "returned"

\* The five entities createTextImage writes for the markup characters.
Entities ==
    { <<38, 97, 109, 112, 59>>, <<38, 108, 116, 59>>, <<38, 103, 116, 59>>,
      <<38, 113, 117, 111, 116, 59>>, <<38, 97, 112, 111, 115, 59>> }

\* The control characters other than tab (9), newline (10) and carriage
\* return (13), DEL included.
OtherControls == (0..31 \ {9, 10, 13}) \cup {127}

\* A body is safe to embed: no control character but tab, newline and
\* carriage return, no U+FFFD, no < > " ', every & the start of a complete
\* entity, and at most 3000 characters.
SafeBody(b) ==
    /\ Len(b) <= 3000
    /\ \A j \in 1..Len(b) :
          /\ b[j] \notin OtherControls
          /\ b[j] # 65533
          /\ b[j] \notin {60, 62, 34, 39}
          /\ b[j] = 38 =>
                \E e \in Entities :
                    /\ j + Len(e) - 1 <= Len(b)
                    /\ SubSeq(b, j, j + Len(e) - 1) = e

\* C18: for every input text, the body createTextImage embeds in the page
\* has no control character other than tab, newline and carriage return, no
\* U+FFFD, no unescaped & < > " ', and is at most 3000 characters long.
C18_BodySanitized ==
    \A i \in 1..Len(result.pages) :
        result.pages[i].kind = "text" => SafeBody(result.pages[i].body)

\* The character at position j of body b starts one of the five entities,
\* all of it inside b.
CompleteEntityAt(b, j) ==
    \E e \in Entities :
        /\ j + Len(e) - 1 <= Len(b)
        /\ \A k \in 1..Len(e) : b[j + k - 1] = e[k]

\* C28: the truncation to 3000 characters in createTextImage never cuts an
\* escape entity: for every input text, each & in the embedded body starts
\* a complete entity (&amp; &lt; &gt; &quot; &apos;).
C28_TruncationKeepsEntities ==
    \A i \in 1..Len(result.pages) :
        result.pages[i].kind = "text" =>
            \A j \in 1..Len(result.pages[i].body) :
                result.pages[i].body[j] = 38 => CompleteEntityAt(result.pages[i].body, j)

\* A text of white space only; the empty text is one.
IsBlank(text) == \A i \in 1..Len(text) : text[i] \in {9, 10, 11, 12, 13, 32}

\* 'Empty PDF or could not extract text'
PlaceholderMessage ==
    <<69, 109, 112, 116, 121, 32, 80, 68, 70, 32, 111, 114, 32, 99, 111, 117,
      108, 100, 32, 110, 111, 116, 32, 101, 120, 116, 114, 97, 99, 116, 32,
      116, 101, 120, 116>>

\* C19: for the empty text and for a text of white space only, the text
\* fallback, when it returns, gives one page whose body is the placeholder
\* message 'Empty PDF or could not extract text', not a blank body.
C19_PlaceholderForBlankText ==
    (pc = "done" /\ tier2 = "returned" /\ IsBlank(pdfText)) =>
        /\ result.status = "ok"
        /\ Len(result.pages) = 1
        /\ result.pages[1].kind = "text"
        /\ result.pages[1].body = PlaceholderMessage

\* A file some operation of the server can still delete: the original file of
\* a stored statement, which removeStatement unlinks.
HeldByStatement(path) ==
    \E i \in 1..Len(documents) : documents[i].originalPath = path

\* A file of the request that is still in uploads/ and that no operation of
\* the server deletes any more.
LeftBehind(path) == path \in uploads /\ ~HeldByStatement(path)

\* C20: every temporary file stored by an upload request (/api/analyze,
\* /api/statement, /api/quiz/upload) is eventually deleted once the request
\* has finished processing, for every file and every outcome.  Stated on the
\* answered request: unless fs.unlinkSync itself failed, no file of the
\* request is left in uploads/ without an operation that still deletes it.
C20_TempFilesDeleted ==
    (upPc = "responded" /\ ~unlinkFailed)
        => \A path \in PathsOf(reqFiles) : ~LeftBehind(path)

\* C21: every quiz that /api/quiz/generate stored has exactly 10 questions.
C21_TenQuestionsStored ==
    \A i \in 1..Len(quizzes) : Len(quizzes[i].questions.items) = NumQuestions

\* The submitted answer of a question equals its correct answer after
\* lower-casing and trimming; an answer that was not submitted is wrong.
AnsweredRight(question, answers) ==
    /\ HasKey(answers, JsString(GetKey(question, K_id)))
    /\ Normalized(GetKey(answers, JsString(GetKey(question, K_id))))
           = Normalized(GetKey(question, K_correctAnswer))

RightAnswers(questions, answers) ==
    Cardinality({i \in 1..Len(questions) : AnsweredRight(questions[i], answers)})

\* round(100 * c / t), a half going up.
RoundedPercent(c, t) == (200 * c + t) \div (2 * t)

\* The counts and the percentage C22 gives for a result of the quiz i.
ScoredAsClaimed(i, r) ==
    LET questions == quizzes[i].questions.items
        right == RightAnswers(questions, r.answers)
    IN  /\ r.quizId = i
        /\ r.score = right
        /\ r.correctCount = right
        /\ r.totalQuestions = Len(questions)
        /\ r.incorrectCount = Len(questions) - right
        /\ r.percentage = Integer(RoundedPercent(right, Len(questions)))

\* C22: for every quiz with at least one question and every answers object,
\* the stored result has score = correctCount = the number of questions
\* answered as the correct answer after lower-casing and trimming,
\* incorrectCount = totalQuestions - correctCount and percentage =
\* round(100 * correctCount / totalQuestions), and it is in the result list
\* of its own quiz.
C22_ScoreAndPercentage ==
    \A i \in 1..Len(quizResults) :
        Len(quizzes[i].questions.items) >= 1
            => \A k \in 1..Len(quizResults[i]) : ScoredAsClaimed(i, quizResults[i][k])

\* The questions with every correct answer replaced by null.
Blinded(questions) ==
    [i \in 1..Len(questions) |-> SetKey(questions[i], K_correctAnswer, JNull)]

BlindedQuiz(quizData) ==
    [quizData EXCEPT !.questions = JArr(Blinded(quizData.questions.items))]

\* C23: the quiz /api/quiz/generate returns carries no correctAnswer: the
\* response is the one of the quiz with its correct answers blanked, so two
\* quizzes that differ only in their correct answers get the same response;
\* the other answers that are not the result of a submission carry no quiz.
C23_NoAnswerDisclosed ==
    IF quizResponse.quiz.id > 0
    THEN /\ \A i \in 1..Len(quizResponse.quiz.questions) :
                ~HasKey(quizResponse.quiz.questions[i], K_correctAnswer)
         /\ quizResponse = GenerateResponse(BlindedQuiz(quizzes[quizResponse.quiz.id]))
    ELSE quizResponse.quiz = NoQuiz

\* Two stored quizzes that differ in their correct answers only, the second
\* just returned to the client.
C23_Witness ==
    /\ Len(quizzes) = 2
    /\ quizResponse.quiz.id = 2
    /\ quizzes[1].questions # quizzes[2].questions
    /\ Blinded(quizzes[1].questions.items) = Blinded(quizzes[2].questions.items)
    /\ Len(quizzes[2].questions.items) > 0

\* C30: the percentage of every stored result is an integer between 0 and
\* 100, also for a quiz with an empty questions list.
C30_PercentageInRange ==
    \A i \in 1..Len(quizResults) : \A k \in 1..Len(quizResults[i]) :
        /\ ~quizResults[i][k].percentage.isNaN
        /\ quizResults[i][k].percentage.n \in 0..100

\* C24: under any interleaving of a statement upload with removeStatement
\* and cleanup, the question cache holds only ids of statements stored in
\* documents, and getQuestions gives an empty list for every removed
\* statement.
C24_CacheOnlyStored ==
    /\ \A e \in questionCache : e.id \in StatementIds
    /\ \A id \in NamedIds \ StatementIds : GetQuestions(id) = 0

\* C25: after any sequence of processStatement, selectStatement,
\* removeStatement and cleanup, activeStatement is null or the id of a stored
\* statement; a selectStatement that fails leaves activeStatement as it was;
\* activeStatement changes only to a stored id or, on removal and cleanup,
\* to null.
C25_ActiveIsStored ==
    /\ [](activeStatement = NoStatement \/ activeStatement \in StatementIds)
    /\ [][(stCall'.op = "select" /\ ~stCall'.ok)
              => activeStatement' = activeStatement]_vars
    /\ [][(stCall'.op \in {"remove", "cleanup"} /\ stCall' # stCall)
              => activeStatement' \in {activeStatement, NoStatement}]_vars

\* A statement is active, another one was removed, and a selectStatement of
\* an unknown id has just failed.
C25_Witness ==
    /\ activeStatement # NoStatement
    /\ stCall = [op |-> "select", ok |-> FALSE]
    /\ Len(documents) = 1
    /\ idCounter = 3

\* C26: a statement upload that fails, in the file conversion or in the
\* question extraction, leaves no record of the upload in the statement
\* store.
C26_FailedUploadLeavesNoRecord ==
    (upRoute = "/api/statement" /\ upPc = "responded" /\ resStatus = 500)
        => statementId \notin StatementIds

\* C27: the /api/analyze response reports statement_used = true only when
\* the results were produced by analyzeExamWithStatement.
C27_StatementUsedIsTrue ==
    (upRoute = "/api/analyze" /\ upPc = "responded" /\ resStatus = 200 /\ statementUsed)
        => \A i \in 1..Len(results) : results[i].analysis = "analyzeExamWithStatement"

====
